---- MODULE Spec2Model ----
(***************************************************************************)
(* Model of data_recovery/deduplicate.py: the FileDuplicateRemover class   *)
(* (hash index, duplicate-set discovery, retention policy, removal,        *)
(* report, snapshot save/load) together with the filesystem it acts on,    *)
(* of data_recovery/split_files.py (FileSplitter: scan, splits, moves into *)
(* batch directories, flatten) and of data_recovery/move_junk.py           *)
(* (FileExtensionOrganizer: move_file, files_are_identical,                *)
(* organize_files).                                                        *)
(*                                                                         *)
(* Characters are their code points (47 is "/", 65 "A", 97 "a", 42 "*",    *)
(* 63 "?"), strings are sequences of characters, and a pathlib.Path is the *)
(* sequence of its components below the root "/".                          *)
(***************************************************************************)
EXTENDS Integers, Sequences, FiniteSets, TLC

VARIABLES
    fs,               \* the filesystem: path -> [exists, content, mtime]
    dry_run,          \* self.dry_run
    hash_algorithm,   \* self.hash_algorithm
    file_hashes,      \* self.file_hashes: dict in insertion order, <<digest, paths>> pairs
    processed_files,  \* self.processed_files
    total_files,      \* self.total_files
    duplicates_found, \* self.duplicates_found
    space_saved,      \* self.space_saved
    duplicates,       \* the dict last returned by find_duplicates
    aliased,          \* TRUE while the lists of `duplicates` are the lists of file_hashes
    db_file,          \* the snapshot file written by save_hash_database
    argFiles,         \* the path list handed to choose_file_to_keep
    argStrategy,      \* the strategy name handed to choose_file_to_keep
    scans,            \* number of scans (one for each run of a tool) made so far
    envSteps,         \* number of changes other programs made to the filesystem
    argInclude,       \* the include patterns handed to _filter_files
    argExclude,       \* the exclude patterns handed to _filter_files
    max_size_bytes,   \* FileSplitter: self.max_size_bytes
    sized_files,      \* FileSplitter: the (file, size) list handed to calculate_splits
    disk,             \* the tree the splitter and the organizer work on: path -> entry
    organizer,        \* FileExtensionOrganizer: its settings and self.stats
    last              \* the last call: its name, arguments, outcome and pre-state

\* the arguments of a _filter_files call made on its own
filterArgs == <<argInclude, argExclude>>

\* the FileSplitter instance and the argument of its calculate_splits call
splitterVars == <<max_size_bytes, sized_files>>

\* the tree of the tools that move files, and the organizer instance
toolVars == <<disk, organizer>>

vars == <<fs, dry_run, hash_algorithm, file_hashes, processed_files, total_files,
          duplicates_found, space_saved, duplicates, aliased, db_file,
          argFiles, argStrategy, scans, envSteps, filterArgs, splitterVars, toolVars, last>>

----------------------------------------------------------------------------
(* Bounds of the model *)

\* largest modification time a file can carry
MaxMtime == 2
\* longest path list handed to choose_file_to_keep in SpecChoose
MaxListLen == 3
\* number of scan_directory calls on one instance, and of runs of a tool on the tree
MaxScans == 2
\* number of changes other programs make to the filesystem during a run
MaxEnvSteps == 1
\* number of files whose unlink is refused during one remove_duplicates call
MaxDenied == 1
\* remove_duplicates is not called again once space_saved exceeds this
MaxSpace == 0
\* longest include or exclude pattern list handed to _filter_files in SpecFilter
MaxPatterns == 2
\* longest (file, size) list handed to calculate_splits in SpecSplits
MaxSplitFiles == 4
\* largest file size and largest max_size_bytes in SpecSplits
MaxFileSize == 3
\* largest max_size_bytes of the splitter that works on the tree
MaxSplitSize == 2
\* largest max_files of an organizer
MaxFilesLimit == 2
\* largest batch_size of an organizer
MaxBatchSize == 2
\* number of organize_files runs and files_are_identical calls of one organizer
MaxOrganizerCalls == 1

----------------------------------------------------------------------------
(* Strings and paths *)

Range(s) == {s[i] : i \in DOMAIN s}

RECURSIVE SeqSum(_)
SeqSum(s) == IF s = <<>> THEN 0 ELSE Head(s) + SeqSum(Tail(s))

\* str.lower() on one character
LowerChar(c) == IF c >= 65 /\ c <= 90 THEN c + 32 ELSE c

\* str.lower()
Lower(s) == [i \in DOMAIN s |-> LowerChar(s[i])]

\* s < t on Python strings: lexicographic by code point
RECURSIVE StrLess(_, _)
StrLess(s, t) ==
    IF t = <<>> THEN FALSE
    ELSE IF s = <<>> THEN TRUE
    ELSE IF Head(s) < Head(t) THEN TRUE
    ELSE IF Head(s) > Head(t) THEN FALSE
    ELSE StrLess(Tail(s), Tail(t))

\* str(path): "/" followed by the components joined with "/"
RECURSIVE JoinParts(_)
JoinParts(parts) ==
    IF parts = <<>> THEN <<>>
    ELSE <<47>> \o Head(parts) \o JoinParts(Tail(parts))

PathStr(p) == IF p = <<>> THEN <<47>> ELSE JoinParts(p)

\* Path(string): split an absolute path string at "/"
RECURSIVE SplitParts(_, _)
SplitParts(s, cur) ==
    IF s = <<>> THEN (IF cur = <<>> THEN <<>> ELSE <<cur>>)
    ELSE IF Head(s) = 47
         THEN (IF cur = <<>> THEN <<>> ELSE <<cur>>) \o SplitParts(Tail(s), <<>>)
         ELSE SplitParts(Tail(s), Append(cur, Head(s)))

PathParse(s) == SplitParts(s, <<>>)

\* path.name: the last component
PathName(p) == IF p = <<>> THEN <<>> ELSE p[Len(p)]

\* path.parent
PathParent(p) == IF p = <<>> THEN <<>> ELSE SubSeq(p, 1, Len(p) - 1)

IsPrefix(d, p) == Len(d) <= Len(p) /\ SubSeq(p, 1, Len(d)) = d

----------------------------------------------------------------------------
(* The filesystem *)

\* "/a", "/A", "/D/cc"
PathLa == << <<97>> >>
PathUa == << <<65>> >>
PathDcc == << <<68>>, <<99, 99>> >>

Paths == {PathLa, PathUa, PathDcc}

\* the directories "/" and "/D"
DirRoot == <<>>
DirD == << <<68>> >>
Dirs == {DirRoot, DirD}

\* file contents, as byte strings
Contents == {<<1>>, <<2, 2>>}

Mtimes == 1..MaxMtime

NoFile == [exists |-> FALSE, content |-> <<>>, mtime |-> 0]

FileStates == {NoFile} \cup [exists : {TRUE}, content : Contents, mtime : Mtimes]

Exists(f, p) == p \in DOMAIN f /\ f[p].exists

\* path.stat().st_size
StSize(f, p) == Len(f[p].content)

\* path.stat().st_mtime
StMtime(f, p) == f[p].mtime

----------------------------------------------------------------------------
(* choose_file_to_keep *)

\* min(values): the index of the first minimal element, as Python's min finds it
RECURSIVE MinIdxFrom(_, _, _)
MinIdxFrom(keys, i, best) ==
    IF i > Len(keys) THEN best
    ELSE MinIdxFrom(keys, i + 1, IF keys[i] < keys[best] THEN i ELSE best)

\* max(values): the index of the first maximal element
RECURSIVE MaxIdxFrom(_, _, _)
MaxIdxFrom(keys, i, best) ==
    IF i > Len(keys) THEN best
    ELSE MaxIdxFrom(keys, i + 1, IF keys[i] > keys[best] THEN i ELSE best)

\* min over string keys
RECURSIVE MinStrIdxFrom(_, _, _)
MinStrIdxFrom(keys, i, best) ==
    IF i > Len(keys) THEN best
    ELSE MinStrIdxFrom(keys, i + 1, IF StrLess(keys[i], keys[best]) THEN i ELSE best)

\* min(duplicate_files, key=lambda f: len(str(f)))
KeepShortestPath(files) ==
    files[MinIdxFrom([i \in DOMAIN files |-> Len(PathStr(files[i]))], 2, 1)]

\* a variant of oldest: the file taken by st_size instead of st_mtime
KeepOldestBySize(files, f) ==
    files[MinIdxFrom([i \in DOMAIN files |-> StSize(f, files[i])], 2, 1)]

\* min(duplicate_files, key=lambda f: f.stat().st_mtime)
KeepOldest(files, f) ==
    files[MinIdxFrom([i \in DOMAIN files |-> StMtime(f, files[i])], 2, 1)]

\* max(duplicate_files, key=lambda f: f.stat().st_mtime)
KeepNewest(files, f) ==
    files[MaxIdxFrom([i \in DOMAIN files |-> StMtime(f, files[i])], 2, 1)]

\* max(duplicate_files, key=lambda f: len(f.name))
KeepLargestName(files) ==
    files[MaxIdxFrom([i \in DOMAIN files |-> Len(PathName(files[i]))], 2, 1)]

\* a variant of first_alphabetical: the comparison made without .lower()
KeepFirstAlphabeticalCaseSensitive(files) ==
    files[MinStrIdxFrom([i \in DOMAIN files |-> PathStr(files[i])], 2, 1)]

\* min(duplicate_files, key=lambda f: str(f).lower())
KeepFirstAlphabetical(files) ==
    files[MinStrIdxFrom([i \in DOMAIN files |-> Lower(PathStr(files[i]))], 2, 1)]

\* a variant of the fallback: it keeps the first listed file
KeepUnknownStrategyFirstListed(files) == files[1]

\* the else branch: warn, then min(duplicate_files, key=lambda f: len(str(f)))
KeepUnknownStrategy(files) ==
    files[MinIdxFrom([i \in DOMAIN files |-> Len(PathStr(files[i]))], 2, 1)]

\* f.stat() raises FileNotFoundError for a path that is not there
StatRaises(files, f) == \E i \in DOMAIN files : ~Exists(f, files[i])

Returned(v) == [raised |-> FALSE, value |-> v]
Raised == [raised |-> TRUE, value |-> <<>>]

\* choose_file_to_keep(duplicate_files, strategy) in the filesystem f
ChooseFileToKeep(files, strategy, f) ==
    IF files = <<>> THEN Raised
    ELSE IF Len(files) = 1 THEN Returned(files[1])
    ELSE IF strategy = "shortest_path" THEN Returned(KeepShortestPath(files))
    ELSE IF strategy = "oldest"
         THEN (IF StatRaises(files, f) THEN Raised ELSE Returned(KeepOldest(files, f)))
    ELSE IF strategy = "newest"
         THEN (IF StatRaises(files, f) THEN Raised ELSE Returned(KeepNewest(files, f)))
    ELSE IF strategy = "largest_name" THEN Returned(KeepLargestName(files))
    ELSE IF strategy = "first_alphabetical" THEN Returned(KeepFirstAlphabetical(files))
    ELSE Returned(KeepUnknownStrategy(files))

KnownStrategies == {"shortest_path", "oldest", "newest", "largest_name", "first_alphabetical"}

\* the strategy names a caller may pass: the known ones and two that are not
Strategies == KnownStrategies \cup {"", "SHORTEST_PATH"}

----------------------------------------------------------------------------
(* Scanning: calculate_file_hash, _filter_files, _process_file, scan_directory *)

Algorithms == {"sha256", "md5"}

\* a variant of the digest: hexdigest() of a hash object that was never updated
HexDigestOfNothing(algorithm, content) == <<algorithm, <<>> >>

\* hashlib.new(algorithm) over the bytes of the file, taken as collision-free:
\* the digest determines the algorithm and the content
HexDigest(algorithm, content) == <<algorithm, content>>

\* calculate_file_hash: the digest, or None when the read raises OSError
CalculateFileHash(algorithm, f, p, unreadable) ==
    IF ~Exists(f, p) \/ p \in unreadable
    THEN [ok |-> FALSE, digest |-> <<>>]
    ELSE [ok |-> TRUE, digest |-> HexDigest(algorithm, f[p].content)]

\* fnmatch.fnmatch(name, pattern) for patterns of literals, "*" and "?"
RECURSIVE FnMatch(_, _)
FnMatch(name, pat) ==
    IF pat = <<>> THEN name = <<>>
    ELSE IF Head(pat) = 42
         THEN FnMatch(name, Tail(pat)) \/ (name /= <<>> /\ FnMatch(Tail(name), pat))
    ELSE IF name = <<>> THEN FALSE
    ELSE IF Head(pat) = 63 THEN FnMatch(Tail(name), Tail(pat))
    ELSE Head(pat) = Head(name) /\ FnMatch(Tail(name), Tail(pat))

\* a variant of the match: name and pattern compared as they are written
MatchesAnyCaseSensitive(p, patterns) ==
    \E i \in DOMAIN patterns : FnMatch(PathName(p), patterns[i])

\* fnmatch.fnmatch(file_path.name.lower(), pattern.lower()) for some pattern of the list
MatchesAny(p, patterns) ==
    \E i \in DOMAIN patterns : FnMatch(Lower(PathName(p)), Lower(patterns[i]))

\* _filter_files; an absent or empty pattern list is <<>>
FilterFiles(files, include, exclude) ==
    LET Included(p) == MatchesAny(p, include)
        NotExcluded(p) == ~MatchesAny(p, exclude)
        afterInclude == IF include /= <<>> THEN SelectSeq(files, Included) ELSE files
    IN  IF exclude /= <<>> THEN SelectSeq(afterInclude, NotExcluded) ELSE afterInclude

\* position of a digest among the keys of the index, 0 when absent
RECURSIVE KeyIndexFrom(_, _, _)
KeyIndexFrom(index, digest, i) ==
    IF i > Len(index) THEN 0
    ELSE IF index[i][1] = digest THEN i
    ELSE KeyIndexFrom(index, digest, i + 1)

KeyIndex(index, digest) == KeyIndexFrom(index, digest, 1)

\* self.file_hashes[file_hash].append(file_path) on the defaultdict
IndexAppend(index, digest, p) ==
    LET k == KeyIndex(index, digest)
    IN  IF k = 0 THEN Append(index, <<digest, <<p>>>>)
        ELSE [index EXCEPT ![k] = <<digest, Append(index[k][2], p)>>]

\* a variant of _process_file: a file that could not be read is counted all the same
ProcessFileCountingFailures(st, algorithm, f, p, unreadable) ==
    LET h == CalculateFileHash(algorithm, f, p, unreadable)
    IN  IF h.ok
        THEN [index |-> IndexAppend(st.index, h.digest, p), processed |-> st.processed + 1]
        ELSE [st EXCEPT !.processed = @ + 1]

\* _process_file on the pair st = [index, processed]
ProcessFile(st, algorithm, f, p, unreadable) ==
    LET h == CalculateFileHash(algorithm, f, p, unreadable)
    IN  IF h.ok
        THEN [index |-> IndexAppend(st.index, h.digest, p), processed |-> st.processed + 1]
        ELSE st

\* for file_path in files_to_process: self._process_file(file_path)
RECURSIVE ProcessFiles(_, _, _, _, _)
ProcessFiles(st, algorithm, f, files, unreadable) ==
    IF files = <<>> THEN st
    ELSE ProcessFiles(ProcessFile(st, algorithm, f, Head(files), unreadable),
                      algorithm, f, Tail(files), unreadable)

\* the files directory.rglob('*') or directory.iterdir() yields
ListedFiles(f, root, recursive) ==
    {p \in Paths : /\ Exists(f, p)
                   /\ IF recursive THEN IsPrefix(root, p) /\ p /= root
                                   ELSE PathParent(p) = root}

\* the orders in which the filesystem lists its entries: rglob and iterdir yield them in
\* the order of os.scandir, here by name ascending or descending
ListingOrders == {<<PathUa, PathLa, PathDcc>>, <<PathDcc, PathLa, PathUa>>}

\* the files of S in the listing order o
Listing(S, o) == LET InS(p) == p \in S IN SelectSeq(o, InS)

\* what a scan is asked for in the model: all of "/", the top level of "/", "/" with
\* the include pattern "A", "/D" with include "*c" and "?" and exclude "A", the missing
\* directory "/x", and "/a", which is no directory
ScanRequests ==
    {[root |-> DirRoot, recursive |-> TRUE, include |-> <<>>, exclude |-> <<>>],
     [root |-> DirRoot, recursive |-> FALSE, include |-> <<>>, exclude |-> <<>>],
     [root |-> DirRoot, recursive |-> TRUE, include |-> << <<65>> >>, exclude |-> <<>>],
     [root |-> DirD, recursive |-> TRUE, include |-> << <<42, 99>>, <<63>> >>,
      exclude |-> << <<65>> >>],
     [root |-> << <<120>> >>, recursive |-> TRUE, include |-> <<>>, exclude |-> <<>>],
     [root |-> PathLa, recursive |-> FALSE, include |-> <<>>, exclude |-> <<>>]}

\* the lists of `duplicates` are the list objects of the index: an append shows in both
Realias(dups, index) ==
    [i \in DOMAIN dups |-> <<dups[i][1], index[KeyIndex(index, dups[i][1])][2]>>]

\* the counters and the index of the instance, as a call finds them
InstanceState ==
    [file_hashes |-> file_hashes, processed_files |-> processed_files,
     total_files |-> total_files, duplicates_found |-> duplicates_found,
     space_saved |-> space_saved]

\* a scan_directory call: its root, whether a scan that raised came just before it, and
\* the instance as it found it
ScanCall(root) ==
    [op |-> "scan", root |-> root, before |-> InstanceState,
     after_failure |-> (last.op = "scan" /\ last.raised)]

\* a variant of the rejection: the counters of the last scan are cleared before the raise
ScanRejectedClearingCounters(root) ==
    /\ last' = ScanCall(root) @@ [raised |-> TRUE]
    /\ total_files' = 0
    /\ processed_files' = 0
    /\ UNCHANGED <<file_hashes, duplicates>>

\* raise ValueError: nothing of the instance has been touched yet
ScanRejected(root) ==
    /\ last' = ScanCall(root) @@ [raised |-> TRUE]
    /\ UNCHANGED <<file_hashes, processed_files, total_files, duplicates>>

\* scan_directory(directory, include_patterns, exclude_patterns, recursive); the read of
\* a file in `unreadable` raises OSError inside calculate_file_hash
ScanDirectory(root, recursive, include, exclude, unreadable) ==
    /\ scans < MaxScans
    /\ scans' = scans + 1
    /\ IF root \notin Dirs
       THEN ScanRejected(root)
       ELSE \E order \in ListingOrders :
            \E files_to_process \in
                   {FilterFiles(Listing(ListedFiles(fs, root, recursive), order),
                                include, exclude)} :
            \E st \in {ProcessFiles([index |-> file_hashes, processed |-> processed_files],
                                     hash_algorithm, fs, files_to_process, unreadable)} :
                  /\ total_files' = Len(files_to_process)
                  /\ file_hashes' = st.index
                  /\ processed_files' = st.processed
                  /\ duplicates' = IF aliased THEN Realias(duplicates, st.index) ELSE duplicates
                  /\ last' = ScanCall(root) @@
                             [raised |-> FALSE, files_to_process |-> files_to_process,
                              unreadable |-> unreadable]
    /\ UNCHANGED <<fs, dry_run, hash_algorithm, duplicates_found, space_saved, aliased,
                   db_file, argFiles, argStrategy, envSteps,
                   filterArgs, splitterVars, toolVars>>

----------------------------------------------------------------------------
(* find_duplicates *)

\* a variant of the filter: len(paths) > 0
HasDuplicatesOrOne(entry) == Len(entry[2]) > 0

\* len(paths) > 1
HasDuplicates(entry) == Len(entry[2]) > 1

\* {hash_val: paths for hash_val, paths in self.file_hashes.items() if len(paths) > 1}
DuplicateSets(index) == SelectSeq(index, HasDuplicates)

\* sum(len(paths) - 1 for paths in duplicates.values())
DuplicateCount(dups) == SeqSum([i \in DOMAIN dups |-> Len(dups[i][2]) - 1])

\* what a find_duplicates call that returns dups and stores count leaves behind
Found(dups, count) ==
    /\ duplicates' = dups
    /\ duplicates_found' = count
    /\ aliased' = TRUE
    /\ last' = [op |-> "find", raised |-> FALSE, result |-> dups,
                index_before |-> file_hashes, found_before |-> duplicates_found]
    /\ UNCHANGED <<fs, dry_run, hash_algorithm, file_hashes, processed_files, total_files,
                   space_saved, db_file, argFiles, argStrategy, scans, envSteps,
                   filterArgs, splitterVars, toolVars>>

\* a variant of find_duplicates: self.duplicates_found += sum(...)
FindDuplicatesAccumulating ==
    Found(DuplicateSets(file_hashes),
          duplicates_found + DuplicateCount(DuplicateSets(file_hashes)))

FindDuplicates ==
    Found(DuplicateSets(file_hashes), DuplicateCount(DuplicateSets(file_hashes)))

----------------------------------------------------------------------------
(* remove_duplicates *)

\* the running state of one remove_duplicates call
RemovalStart(f, saved) ==
    [fs |-> f, saved |-> saved, removed |-> 0, keepers |-> <<>>, targets |-> <<>>,
     attempted |-> <<>>, failed |-> <<>>, raised |-> FALSE, raised_at |-> "nowhere"]

\* for file_to_remove in files_to_remove: stat, add the size, then unlink unless dry_run;
\* the unlink of a path in `denied` raises OSError, which is caught
RECURSIVE RemoveFiles(_, _, _, _)
RemoveFiles(r, files, dry, denied) ==
    IF files = <<>> \/ r.raised THEN r
    ELSE LET p == Head(files)
         IN  IF ~Exists(r.fs, p) THEN [r EXCEPT !.raised = TRUE, !.raised_at = "stat"]
             ELSE LET counted == [r EXCEPT !.saved = @ + StSize(r.fs, p)]
                  IN  IF dry THEN RemoveFiles(counted, Tail(files), dry, denied)
                      ELSE IF p \in denied
                      THEN RemoveFiles([counted EXCEPT !.attempted = Append(@, p),
                                                       !.failed = Append(@, p)],
                                       Tail(files), dry, denied)
                      ELSE RemoveFiles([counted EXCEPT !.fs[p] = NoFile,
                                                       !.removed = @ + 1,
                                                       !.attempted = Append(@, p)],
                                       Tail(files), dry, denied)

\* a variant of the list: the keeper is not taken out
FilesToRemoveWithKeeper(duplicate_files, file_to_keep) == duplicate_files

\* files_to_remove = [f for f in duplicate_files if f != file_to_keep]
FilesToRemove(duplicate_files, file_to_keep) ==
    LET NotKeeper(x) == x /= file_to_keep IN SelectSeq(duplicate_files, NotKeeper)

\* for file_hash, duplicate_files in duplicates.items(): choose the keeper, remove the rest
RECURSIVE RemoveSets(_, _, _, _, _)
RemoveSets(r, dups, strategy, dry, denied) ==
    IF dups = <<>> \/ r.raised THEN r
    ELSE LET duplicate_files == Head(dups)[2]
             file_to_keep == ChooseFileToKeep(duplicate_files, strategy, r.fs)
             files_to_remove == FilesToRemove(duplicate_files, file_to_keep.value)
         IN  IF file_to_keep.raised THEN [r EXCEPT !.raised = TRUE, !.raised_at = "choose"]
             ELSE RemoveSets(RemoveFiles([r EXCEPT !.keepers = Append(@, file_to_keep.value),
                                                   !.targets = @ \o files_to_remove],
                                         files_to_remove, dry, denied),
                             Tail(dups), strategy, dry, denied)

\* a variant of the removal: every path whose unlink was attempted is also taken out of the index
RemovalPruningIndex(r) ==
    /\ fs' = r.fs
    /\ space_saved' = r.saved
    /\ file_hashes' = [i \in DOMAIN file_hashes |->
                         <<file_hashes[i][1],
                           LET Kept(x) == x \notin Range(r.attempted)
                           IN  SelectSeq(file_hashes[i][2], Kept)>>]
    /\ last' = [op |-> "remove", raised |-> r.raised, raised_at |-> r.raised_at,
                sets |-> duplicates, fs_before |-> fs,
                keepers |-> r.keepers, targets |-> r.targets,
                attempted |-> r.attempted, failed |-> r.failed,
                removed_count |-> r.removed, index_before |-> file_hashes,
                space_before |-> space_saved]
    /\ UNCHANGED <<dry_run, hash_algorithm, processed_files, total_files,
                   duplicates_found, duplicates, aliased, db_file,
                   argFiles, argStrategy, scans, envSteps,
                   filterArgs, splitterVars, toolVars>>

\* what a remove_duplicates call that ran as r leaves behind
Removal(r) ==
    /\ fs' = r.fs
    /\ space_saved' = r.saved
    /\ last' = [op |-> "remove", raised |-> r.raised, raised_at |-> r.raised_at,
                sets |-> duplicates, fs_before |-> fs,
                keepers |-> r.keepers, targets |-> r.targets,
                attempted |-> r.attempted, failed |-> r.failed,
                removed_count |-> r.removed, index_before |-> file_hashes,
                space_before |-> space_saved]
    /\ UNCHANGED <<dry_run, hash_algorithm, file_hashes, processed_files, total_files,
                   duplicates_found, duplicates, aliased, db_file,
                   argFiles, argStrategy, scans, envSteps,
                   filterArgs, splitterVars, toolVars>>

\* a variant of remove_duplicates: the unlink made without looking at self.dry_run
RemoveDuplicatesIgnoringDryRun(strategy, denied) ==
    /\ space_saved <= MaxSpace
    /\ \E r \in {RemoveSets(RemovalStart(fs, space_saved), duplicates, strategy,
                             FALSE, denied)} : Removal(r)

\* remove_duplicates(duplicates, keep_strategy) on the dict find_duplicates returned
RemoveDuplicates(strategy, denied) ==
    /\ space_saved <= MaxSpace
    /\ \E r \in {RemoveSets(RemovalStart(fs, space_saved), duplicates, strategy,
                             dry_run, denied)} : Removal(r)

----------------------------------------------------------------------------
(* choose_file_to_keep as a call on the instance *)

ChooseCall(files, strategy) ==
    /\ last' = [op |-> "choose", raised |-> ChooseFileToKeep(files, strategy, fs).raised,
                result |-> ChooseFileToKeep(files, strategy, fs).value,
                files |-> files, strategy |-> strategy,
                stats |-> [i \in DOMAIN files |-> [exists |-> Exists(fs, files[i]),
                                                   mtime |-> StMtime(fs, files[i])]],
                index_before |-> file_hashes]
    /\ UNCHANGED <<fs, dry_run, hash_algorithm, file_hashes, processed_files, total_files,
                   duplicates_found, space_saved, duplicates, aliased, db_file,
                   argFiles, argStrategy, scans, envSteps,
                   filterArgs, splitterVars, toolVars>>

\* the keeper of one of the duplicate sets, as remove_duplicates asks for it
ChooseOfSet == \E i \in DOMAIN duplicates : ChooseCall(duplicates[i][2], argStrategy)

----------------------------------------------------------------------------
(* generate_report, save_hash_database, load_hash_database *)

\* the lines of one duplicate set: its digest and each path with its size
ReportEntry(entry, f) ==
    [digest |-> entry[1],
     files |-> [i \in DOMAIN entry[2] |-> <<PathStr(entry[2][i]), StSize(f, entry[2][i])>>]]

\* the report text, by the values it prints (the generation time left out)
ReportText(dups, f) ==
    [scanned |-> processed_files, sets |-> Len(dups), to_remove |-> duplicates_found,
     space |-> space_saved, entries |-> [i \in DOMAIN dups |-> ReportEntry(dups[i], f)]]

\* generate_report(duplicates, output_file); file_path.stat() raises for a missing file,
\* before anything is written. The output file lies outside the scanned tree: `written`
\* says whether the text went to it.
GenerateReport(write) ==
    /\ last' = IF \E i \in DOMAIN duplicates : StatRaises(duplicates[i][2], fs)
               THEN [op |-> "report", raised |-> TRUE, index_before |-> file_hashes]
               ELSE [op |-> "report", raised |-> FALSE, index_before |-> file_hashes,
                     result |-> ReportText(duplicates, fs), written |-> write]
    /\ UNCHANGED <<fs, dry_run, hash_algorithm, file_hashes, processed_files, total_files,
                   duplicates_found, space_saved, duplicates, aliased, db_file,
                   argFiles, argStrategy, scans, envSteps,
                   filterArgs, splitterVars, toolVars>>

NoDb == [exists |-> FALSE]

\* the keys load_hash_database reads: "metadata", its "algorithm" and "total_files",
\* and "hashes"
SnapshotFields == {"metadata", "algorithm", "total_files", "hashes"}

\* a variant of the document: the file count written is the number of digests
HashDbCountingDigests(algorithm, processed, index) ==
    [exists |-> TRUE,
     lacks |-> {},
     metadata |-> [algorithm |-> algorithm, total_files |-> Len(index)],
     hashes |-> [i \in DOMAIN index |->
                   <<index[i][1], [j \in DOMAIN index[i][2] |-> PathStr(index[i][2][j])]>>],
     saved_from |-> [hash_algorithm |-> algorithm, processed_files |-> processed,
                     file_hashes |-> index]]

\* the JSON document save_hash_database dumps (the generation time left out). `lacks`
\* names the keys the document is without; `saved_from` is no part of the document: it
\* remembers the instance the snapshot was taken from.
HashDb(algorithm, processed, index) ==
    [exists |-> TRUE,
     lacks |-> {},
     metadata |-> [algorithm |-> algorithm, total_files |-> processed],
     hashes |-> [i \in DOMAIN index |->
                   <<index[i][1], [j \in DOMAIN index[i][2] |-> PathStr(index[i][2][j])]>>],
     saved_from |-> [hash_algorithm |-> algorithm, processed_files |-> processed,
                     file_hashes |-> index]]

SaveHashDatabase ==
    /\ db_file' = HashDb(hash_algorithm, processed_files, file_hashes)
    /\ last' = [op |-> "save", raised |-> FALSE, index_before |-> file_hashes]
    /\ UNCHANGED <<fs, dry_run, hash_algorithm, file_hashes, processed_files, total_files,
                   duplicates_found, space_saved, duplicates, aliased,
                   argFiles, argStrategy, scans, envSteps,
                   filterArgs, splitterVars, toolVars>>

\* a variant of the load: every path rebuilt from its last component alone
LoadedIndexOfNames(hashes) ==
    [i \in DOMAIN hashes |->
        <<hashes[i][1],
          [j \in DOMAIN hashes[i][2] |-> <<PathName(PathParse(hashes[i][2][j]))>>]>>]

\* self.file_hashes[hash_val] = [Path(p) for p in path_strings]
LoadedIndex(hashes) ==
    [i \in DOMAIN hashes |->
        <<hashes[i][1], [j \in DOMAIN hashes[i][2] |-> PathParse(hashes[i][2][j])]>>]

\* a variant of the reads: the file count is read with a default
LoadFailsAtWithDefaultCount(db) ==
    IF ~db.exists THEN "open"
    ELSE IF "metadata" \in db.lacks \/ "algorithm" \in db.lacks THEN "algorithm"
    ELSE IF "hashes" \in db.lacks THEN "hashes"
    ELSE "nowhere"

\* the statement of load_hash_database that raises on the document db: open() when the
\* file is not there, else the first subscript of a key the document lacks
LoadFailsAt(db) ==
    IF ~db.exists THEN "open"
    ELSE IF "metadata" \in db.lacks \/ "algorithm" \in db.lacks THEN "algorithm"
    ELSE IF "total_files" \in db.lacks THEN "total_files"
    ELSE IF "hashes" \in db.lacks THEN "hashes"
    ELSE "nowhere"

\* load_hash_database(input_file): the statements before the one that raises have run
LoadHashDatabase ==
    /\ \E at \in {LoadFailsAt(db_file)} :
          /\ hash_algorithm' = IF at \in {"open", "algorithm"} THEN hash_algorithm
                               ELSE db_file.metadata.algorithm
          /\ processed_files' = IF at \in {"open", "algorithm", "total_files"}
                                THEN processed_files
                                ELSE db_file.metadata.total_files
          /\ file_hashes' = IF at \in {"open", "algorithm", "total_files"} THEN file_hashes
                            ELSE IF at = "hashes" THEN <<>>
                            ELSE LoadedIndex(db_file.hashes)
          /\ aliased' = IF at \in {"open", "algorithm", "total_files"} THEN aliased
                        ELSE FALSE
          /\ last' = [op |-> "load", raised |-> at /= "nowhere", raised_at |-> at,
                      db |-> db_file,
                      before |-> InstanceState @@ [hash_algorithm |-> hash_algorithm]]
    /\ UNCHANGED <<fs, dry_run, total_files, duplicates_found, space_saved, duplicates,
                   db_file, argFiles, argStrategy, scans, envSteps,
                   filterArgs, splitterVars, toolVars>>

\* FileDuplicateRemover(dry_run, hash_algorithm): the program goes on with a new instance
NewInstance(dry, algorithm) ==
    /\ dry_run' = dry
    /\ hash_algorithm' = algorithm
    /\ file_hashes' = <<>>
    /\ processed_files' = 0
    /\ total_files' = 0
    /\ duplicates_found' = 0
    /\ space_saved' = 0
    /\ duplicates' = <<>>
    /\ aliased' = FALSE
    /\ last' = [op |-> "init", raised |-> FALSE]
    /\ UNCHANGED <<fs, db_file, argFiles, argStrategy, scans, envSteps,
                   filterArgs, splitterVars, toolVars>>

----------------------------------------------------------------------------
(* main: the command line tool *)

\* the state of a FileDuplicateRemover as main builds it
NewRemover(dry, algorithm) ==
    [dry_run |-> dry, hash_algorithm |-> algorithm, file_hashes |-> <<>>,
     processed_files |-> 0, total_files |-> 0, duplicates_found |-> 0, space_saved |-> 0,
     duplicates |-> <<>>]

\* a run of main: the remover it works on, the filesystem and the snapshot file as it
\* leaves them, the value it returns, whether an exception left it, and the step an
\* exception came from
MainRun(d, f, db, code, escaped, failed_in) ==
    [remover |-> d, fs |-> f, db |-> db, code |-> code, escaped |-> escaped,
     failed_in |-> failed_in]

\* deduplicator.remove_duplicates(duplicates, args.keep_strategy), then return 0
MainRemove(d, dups, args, f, db, env) ==
    LET r == RemoveSets(RemovalStart(f, d.space_saved), dups, args.keep_strategy,
                        d.dry_run, env.denied)
        after == [d EXCEPT !.space_saved = r.saved]
    IN  IF r.raised THEN MainRun(after, r.fs, db, 1, FALSE, "remove")
        ELSE MainRun(after, r.fs, db, 0, FALSE, "nothing")

\* find_duplicates; return 0 when there are none; the report if asked for; the removal
MainFind(d, args, f, db, env) ==
    LET dups == DuplicateSets(d.file_hashes)
        found == [d EXCEPT !.duplicates_found = DuplicateCount(dups), !.duplicates = dups]
    IN  IF dups = <<>> THEN MainRun(found, f, db, 0, FALSE, "nothing")
        ELSE IF args.report /\ (\/ \E i \in DOMAIN dups : StatRaises(dups[i][2], f)
                                \/ env.unwritable)
        THEN MainRun(found, f, db, 1, FALSE, "report")
        ELSE MainRemove(found, dups, args, f, db, env)

\* a variant of the load branch: the exception of a failed load is not caught
MainLoadEscaping(d, args, f, db, env) ==
    LET at == LoadFailsAt(db)
        loaded == [d EXCEPT
                     !.hash_algorithm = IF at \in {"open", "algorithm"} THEN @
                                        ELSE db.metadata.algorithm,
                     !.processed_files = IF at \in {"open", "algorithm", "total_files"}
                                         THEN @ ELSE db.metadata.total_files,
                     !.file_hashes = IF at \in {"open", "algorithm", "total_files"} THEN @
                                     ELSE IF at = "hashes" THEN <<>>
                                     ELSE LoadedIndex(db.hashes)]
    IN  IF at /= "nowhere" THEN MainRun(loaded, f, db, 1, TRUE, "load")
        ELSE MainFind(loaded, args, f, db, env)

\* the branch of main that loads the snapshot
MainLoad(d, args, f, db, env) ==
    LET at == LoadFailsAt(db)
        loaded == [d EXCEPT
                     !.hash_algorithm = IF at \in {"open", "algorithm"} THEN @
                                        ELSE db.metadata.algorithm,
                     !.processed_files = IF at \in {"open", "algorithm", "total_files"}
                                         THEN @ ELSE db.metadata.total_files,
                     !.file_hashes = IF at \in {"open", "algorithm", "total_files"} THEN @
                                     ELSE IF at = "hashes" THEN <<>>
                                     ELSE LoadedIndex(db.hashes)]
    IN  IF at /= "nowhere" THEN MainRun(loaded, f, db, 1, FALSE, "load")
        ELSE MainFind(loaded, args, f, db, env)

\* the branch of main that scans the directory and saves the snapshot if asked to
MainScan(d, args, f, db, env) ==
    LET files_to_process ==
            FilterFiles(Listing(ListedFiles(f, args.directory, ~args.no_recursive),
                                env.order),
                        args.include, args.exclude)
        st == ProcessFiles([index |-> d.file_hashes, processed |-> d.processed_files],
                           d.hash_algorithm, f, files_to_process, {})
        scanned == [d EXCEPT !.total_files = Len(files_to_process),
                             !.file_hashes = st.index,
                             !.processed_files = st.processed]
    IN  IF args.directory \notin Dirs THEN MainRun(d, f, db, 1, FALSE, "scan")
        ELSE IF args.save_hashes /\ env.unwritable
        THEN MainRun(scanned, f, db, 1, FALSE, "save")
        ELSE MainFind(scanned, args, f,
                      IF args.save_hashes
                      THEN HashDb(scanned.hash_algorithm, scanned.processed_files,
                                  scanned.file_hashes)
                      ELSE db,
                      env)

\* main() from the parsed arguments on: the check of the directory, the remover, and the
\* try block whose `except Exception` turns every exception into the return value 1
MainOutcome(args, f, db, env) ==
    IF ~args.load_hashes /\ args.directory \notin Dirs
    THEN MainRun(NewRemover(args.dry_run, args.hash_algorithm), f, db, 1, FALSE, "arguments")
    ELSE IF args.load_hashes
    THEN MainLoad(NewRemover(args.dry_run, args.hash_algorithm), args, f, db, env)
    ELSE MainScan(NewRemover(args.dry_run, args.hash_algorithm), args, f, db, env)

\* the command lines of the model
MainArgs ==
    [directory : {DirRoot, << <<120>> >>, PathLa},
     dry_run : BOOLEAN,
     hash_algorithm : {"sha256"},
     include : {<<>>},
     exclude : {<<>>},
     keep_strategy : {"shortest_path", "oldest"},
     no_recursive : {FALSE},
     report : BOOLEAN,
     save_hashes : BOOLEAN,
     load_hashes : BOOLEAN]

\* what a run meets: the order in which the directory lists its files, the files whose
\* unlink is refused, and whether the report and snapshot files can be written
MainEnvs ==
    [order : ListingOrders,
     denied : {D \in SUBSET {PathLa} : Cardinality(D) <= MaxDenied},
     unwritable : BOOLEAN]

\* one run of the tool, from the command line to the exit code
Main(args, env) ==
    /\ scans < MaxScans
    /\ scans' = scans + 1
    /\ \E run \in {MainOutcome(args, fs, db_file, env)} :
          /\ fs' = run.fs
          /\ db_file' = run.db
          /\ dry_run' = run.remover.dry_run
          /\ hash_algorithm' = run.remover.hash_algorithm
          /\ file_hashes' = run.remover.file_hashes
          /\ processed_files' = run.remover.processed_files
          /\ total_files' = run.remover.total_files
          /\ duplicates_found' = run.remover.duplicates_found
          /\ space_saved' = run.remover.space_saved
          /\ duplicates' = run.remover.duplicates
          /\ aliased' = (run.remover.duplicates /= <<>>)
          /\ last' = [op |-> "main", raised |-> run.escaped, code |-> run.code,
                      failed_in |-> run.failed_in, load_hashes |-> args.load_hashes,
                      directory |-> args.directory]
    /\ UNCHANGED <<argFiles, argStrategy, envSteps, filterArgs, splitterVars, toolVars>>

----------------------------------------------------------------------------
(* A removal pass and the scan of a fresh instance after it *)

\* what a pass or a scan of a fresh instance that is refused its root leaves behind
FreshRejected(dry, op, call) ==
    /\ dry_run' = dry
    /\ hash_algorithm' = "sha256"
    /\ file_hashes' = <<>>
    /\ processed_files' = 0
    /\ total_files' = 0
    /\ duplicates_found' = 0
    /\ space_saved' = 0
    /\ duplicates' = <<>>
    /\ aliased' = FALSE
    /\ last' = [op |-> op, raised |-> TRUE, raised_at |-> "scan"] @@ call
    /\ UNCHANGED fs

\* deduplicator = FileDuplicateRemover(dry_run=False); scan_directory; find_duplicates;
\* remove_duplicates(duplicates, keep_strategy): a live removal over the files of req
RemovalPass(req, strategy, order, denied) ==
    /\ scans < MaxScans
    /\ scans' = scans + 1
    /\ IF req.root \notin Dirs
       THEN FreshRejected(FALSE, "pass", [request |-> req, fs_before |-> fs])
       ELSE \E files \in {FilterFiles(Listing(ListedFiles(fs, req.root, req.recursive), order),
                                      req.include, req.exclude)} :
            \E st \in {ProcessFiles([index |-> <<>>, processed |-> 0], "sha256", fs,
                                     files, {})} :
            \E dups \in {DuplicateSets(st.index)} :
            \E r \in {RemoveSets(RemovalStart(fs, 0), dups, strategy, FALSE, denied)} :
                  /\ fs' = r.fs
                  /\ dry_run' = FALSE
                  /\ hash_algorithm' = "sha256"
                  /\ file_hashes' = st.index
                  /\ processed_files' = st.processed
                  /\ total_files' = Len(files)
                  /\ duplicates_found' = DuplicateCount(dups)
                  /\ space_saved' = r.saved
                  /\ duplicates' = dups
                  /\ aliased' = TRUE
                  /\ last' = [op |-> "pass", raised |-> r.raised, raised_at |-> r.raised_at,
                              request |-> req, fs_before |-> fs, files |-> files,
                              sets |-> dups, keepers |-> r.keepers, failed |-> r.failed,
                              removed_count |-> r.removed]
    /\ UNCHANGED <<db_file, argFiles, argStrategy, envSteps, filterArgs, splitterVars, toolVars>>

\* deduplicator = FileDuplicateRemover(dry_run=True); scan_directory; find_duplicates:
\* a new instance looks at the files the pass before it went over
FreshScan(order) ==
    /\ last.op = "pass"
    /\ IF last.request.root \notin Dirs
       THEN FreshRejected(TRUE, "rescan", [pass |-> last])
       ELSE \E files \in {FilterFiles(Listing(ListedFiles(fs, last.request.root,
                                                           last.request.recursive), order),
                                      last.request.include, last.request.exclude)} :
            \E st \in {ProcessFiles([index |-> <<>>, processed |-> 0], "sha256", fs,
                                     files, {})} :
            \E dups \in {DuplicateSets(st.index)} :
                  /\ dry_run' = TRUE
                  /\ hash_algorithm' = "sha256"
                  /\ file_hashes' = st.index
                  /\ processed_files' = st.processed
                  /\ total_files' = Len(files)
                  /\ duplicates_found' = DuplicateCount(dups)
                  /\ space_saved' = 0
                  /\ duplicates' = dups
                  /\ aliased' = TRUE
                  /\ last' = [op |-> "rescan", raised |-> FALSE, pass |-> last,
                              files |-> files, result |-> dups]
                  /\ UNCHANGED fs
    /\ UNCHANGED <<db_file, argFiles, argStrategy, scans, envSteps,
                   filterArgs, splitterVars, toolVars>>

----------------------------------------------------------------------------
(* Other programs acting on the filesystem between two calls. `last` describes a call *)
(* and the state it left: once the filesystem has changed again it records that.      *)

EnvWrite(p, content, mtime) ==
    /\ envSteps < MaxEnvSteps
    /\ fs[p].content /= content \/ fs[p].mtime /= mtime
    /\ fs' = [fs EXCEPT ![p] = [exists |-> TRUE, content |-> content, mtime |-> mtime]]
    /\ envSteps' = envSteps + 1
    /\ last' = [op |-> "env", raised |-> FALSE]
    /\ UNCHANGED <<dry_run, hash_algorithm, file_hashes, processed_files, total_files,
                   duplicates_found, space_saved, duplicates, aliased, db_file,
                   argFiles, argStrategy, scans,
                   filterArgs, splitterVars, toolVars>>

EnvDelete(p) ==
    /\ envSteps < MaxEnvSteps
    /\ Exists(fs, p)
    /\ fs' = [fs EXCEPT ![p] = NoFile]
    /\ envSteps' = envSteps + 1
    /\ last' = [op |-> "env", raised |-> FALSE]
    /\ UNCHANGED <<dry_run, hash_algorithm, file_hashes, processed_files, total_files,
                   duplicates_found, space_saved, duplicates, aliased, db_file,
                   argFiles, argStrategy, scans,
                   filterArgs, splitterVars, toolVars>>

\* another program leaves the snapshot file without one of its keys
EnvDamageDb(field) ==
    /\ envSteps < MaxEnvSteps
    /\ db_file.exists
    /\ field \notin db_file.lacks
    /\ db_file' = [db_file EXCEPT !.lacks = @ \cup {field}]
    /\ envSteps' = envSteps + 1
    /\ last' = [op |-> "env", raised |-> FALSE]
    /\ UNCHANGED <<fs, dry_run, hash_algorithm, file_hashes, processed_files, total_files,
                   duplicates_found, space_saved, duplicates, aliased,
                   argFiles, argStrategy, scans,
                   filterArgs, splitterVars, toolVars>>

----------------------------------------------------------------------------
(* The instance and its filesystem *)

\* FileDuplicateRemover.__init__, after the arguments are stored
Constructed ==
    /\ file_hashes = <<>>
    /\ processed_files = 0
    /\ total_files = 0
    /\ duplicates_found = 0
    /\ space_saved = 0
    /\ duplicates = <<>>
    /\ aliased = FALSE
    /\ db_file = NoDb
    /\ scans = 0
    /\ envSteps = 0
    /\ last = [op |-> "init", raised |-> FALSE]

\* self.stats as __init__ sets it (the counters the model follows)
NoStats ==
    [processed |-> 0, moved |-> 0, errors |-> 0, duplicates_skipped |-> 0,
     duplicates_removed |-> 0]

\* the tools that move files have nothing to work on
ToolsIdle ==
    /\ disk = <<>>
    /\ organizer = [stats |-> NoStats]

\* no _filter_files call of its own is under way and no FileSplitter is at work
Idle ==
    /\ argInclude = <<>>
    /\ argExclude = <<>>
    /\ max_size_bytes = 0
    /\ sized_files = <<>>
    /\ ToolsIdle

\* the files to deduplicate, all written at the same time: three copies of one content,
\* or two copies and a file of its own
Corpora ==
    {[p \in Paths |-> [exists |-> TRUE, content |-> <<1>>, mtime |-> 1]],
     [p \in Paths |-> [exists |-> TRUE, mtime |-> 1,
                       content |-> IF p = PathDcc THEN <<2, 2>> ELSE <<1>>]]}

Init ==
    /\ fs \in Corpora
    /\ dry_run \in BOOLEAN
    /\ hash_algorithm = "sha256"
    /\ argFiles = <<>>
    /\ argStrategy = "shortest_path"
    /\ Idle
    /\ Constructed

\* a scan in which every candidate file can be read
Scan == \E req \in ScanRequests :
            ScanDirectory(req.root, req.recursive, req.include, req.exclude, {})

\* a scan in which the read of some files fails
ScanWithReadFailures ==
    \E req \in ScanRequests, unreadable \in (SUBSET Paths) \ {{}} :
        ScanDirectory(req.root, req.recursive, req.include, req.exclude, unreadable)

Remove == \E strategy \in Strategies,
             denied \in {D \in SUBSET Paths : Cardinality(D) <= MaxDenied} :
              RemoveDuplicates(strategy, denied)

Report == \E write \in BOOLEAN : GenerateReport(write)

\* a file is written, at the latest time
Write == \E p \in Paths, content \in Contents : EnvWrite(p, content, MaxMtime)

Delete == \E p \in Paths : EnvDelete(p)

\* a run of the tool while other programs use the filesystem
Next ==
    \/ Scan
    \/ FindDuplicates
    \/ Remove
    \/ Write
    \/ Delete

Spec == Init /\ [][Next]_vars

\* every operation of the class, on a filesystem nobody else touches
NextApi ==
    \/ Scan
    \/ FindDuplicates
    \/ ChooseOfSet
    \/ Remove
    \/ Report
    \/ SaveHashDatabase
    \/ LoadHashDatabase

SpecApi == Init /\ [][NextApi]_vars

Construct == \E algorithm \in Algorithms : NewInstance(dry_run, algorithm)

DamageSnapshot == \E field \in SnapshotFields : EnvDamageDb(field)

\* snapshots of the index written by one instance and read by another
NextSnapshot ==
    \/ Scan
    \/ SaveHashDatabase
    \/ Construct
    \/ LoadHashDatabase
    \/ DamageSnapshot

SpecSnapshot == Init /\ [][NextSnapshot]_vars

RunMain == \E args \in MainArgs, env \in MainEnvs : Main(args, env)

\* runs of the command line tool on a filesystem that others use between the runs
NextMain ==
    \/ RunMain
    \/ Write
    \/ Delete
    \/ DamageSnapshot

SpecMain == Init /\ [][NextMain]_vars

\* scans of one instance, some of them over files that cannot be read
NextScan ==
    \/ Scan
    \/ ScanWithReadFailures
    \/ FindDuplicates

SpecScan == Init /\ [][NextScan]_vars

\* every filesystem over the paths of the model
InitConverge ==
    /\ fs \in [Paths -> FileStates]
    /\ dry_run = FALSE
    /\ hash_algorithm = "sha256"
    /\ argFiles = <<>>
    /\ argStrategy = "shortest_path"
    /\ Idle
    /\ Constructed

Pass == \E req \in ScanRequests, strategy \in KnownStrategies, order \in ListingOrders,
           denied \in {D \in SUBSET Paths : Cardinality(D) <= MaxDenied} :
            RemovalPass(req, strategy, order, denied)

Rescan == \E order \in ListingOrders : FreshScan(order)

\* removal passes, each looked at afterwards by a fresh instance
NextConverge ==
    \/ Pass
    \/ Rescan

SpecConverge == InitConverge /\ [][NextConverge]_vars

----------------------------------------------------------------------------
(* choose_file_to_keep alone, over every path list, strategy and filesystem *)

\* every path list of length 1..n
ListsUpTo(n) == UNION {[1..k -> Paths] : k \in 1..n}

\* the instance is built with its defaults, in any filesystem
InitChoose ==
    /\ fs \in [Paths -> FileStates]
    /\ dry_run = FALSE
    /\ hash_algorithm = "sha256"
    /\ argFiles \in ListsUpTo(MaxListLen)
    /\ argStrategy \in Strategies
    /\ Idle
    /\ Constructed

Choose == ChooseCall(argFiles, argStrategy)

NextChoose == Choose

SpecChoose == InitChoose /\ [][NextChoose]_vars

----------------------------------------------------------------------------
(* _filter_files alone, over every file list and pattern lists *)

\* the patterns "A", "C*" and "?"
Patterns == {<<65>>, <<67, 42>>, <<63>>}

\* every pattern list of length 0..n; the empty list stands for None as well
PatternLists(n) == UNION {[1..k -> Patterns] : k \in 0..n}

\* _filter_files reads no file: the filesystem is left empty
InitFilter ==
    /\ fs = [p \in Paths |-> NoFile]
    /\ dry_run = FALSE
    /\ hash_algorithm = "sha256"
    /\ argFiles \in ListsUpTo(MaxListLen)
    /\ argStrategy = "shortest_path"
    /\ argInclude \in PatternLists(MaxPatterns)
    /\ argExclude \in PatternLists(MaxPatterns)
    /\ max_size_bytes = 0
    /\ sized_files = <<>>
    /\ ToolsIdle
    /\ Constructed

\* self._filter_files(files, include_patterns, exclude_patterns)
FilterCall(files, include, exclude) ==
    /\ last' = [op |-> "filter", raised |-> FALSE, files |-> files,
                include |-> include, exclude |-> exclude,
                result |-> FilterFiles(files, include, exclude)]
    /\ UNCHANGED <<fs, dry_run, hash_algorithm, file_hashes, processed_files, total_files,
                   duplicates_found, space_saved, duplicates, aliased, db_file,
                   argFiles, argStrategy, scans, envSteps,
                   filterArgs, splitterVars, toolVars>>

Filter == FilterCall(argFiles, argInclude, argExclude)

NextFilter == Filter

SpecFilter == InitFilter /\ [][NextFilter]_vars

----------------------------------------------------------------------------
(* split_files.py: FileSplitter.calculate_splits *)

\* splits, current_split and current_size before the loop
SplitStart == [splits |-> <<>>, current_split |-> <<>>, current_size |-> 0]

\* a variant of the loop body: the limit is compared with the size gathered so far
SplitStepLate(st, file, max) ==
    IF file[2] > max
    THEN IF st.current_split /= <<>>
         THEN [splits |-> Append(st.splits, st.current_split) \o << <<file>> >>,
               current_split |-> <<>>, current_size |-> 0]
         ELSE [st EXCEPT !.splits = Append(@, <<file>>)]
    ELSE IF st.current_size > max
    THEN [splits |-> IF st.current_split /= <<>> THEN Append(st.splits, st.current_split)
                     ELSE st.splits,
          current_split |-> <<file>>, current_size |-> file[2]]
    ELSE [st EXCEPT !.current_split = Append(@, file), !.current_size = @ + file[2]]

\* the body of `for file_path, file_size in files`, file = <<file_path, file_size>>
SplitStep(st, file, max) ==
    IF file[2] > max
    THEN IF st.current_split /= <<>>
         THEN [splits |-> Append(st.splits, st.current_split) \o << <<file>> >>,
               current_split |-> <<>>, current_size |-> 0]
         ELSE [st EXCEPT !.splits = Append(@, <<file>>)]
    ELSE IF st.current_size + file[2] > max
    THEN [splits |-> IF st.current_split /= <<>> THEN Append(st.splits, st.current_split)
                     ELSE st.splits,
          current_split |-> <<file>>, current_size |-> file[2]]
    ELSE [st EXCEPT !.current_split = Append(@, file), !.current_size = @ + file[2]]

RECURSIVE SplitLoop(_, _, _)
SplitLoop(st, files, max) ==
    IF files = <<>> THEN st
    ELSE SplitLoop(SplitStep(st, Head(files), max), Tail(files), max)

\* a variant of the end: the split still open after the loop is not appended
CalculateSplitsWithoutLast(files, max) ==
    SplitLoop(SplitStart, files, max).splits

\* calculate_splits(files) of a splitter whose max_size_bytes is max
CalculateSplits(files, max) ==
    LET st == SplitLoop(SplitStart, files, max)
    IN  IF st.current_split /= <<>> THEN Append(st.splits, st.current_split)
        ELSE st.splits

\* the i-th file of a list handed to calculate_splits: "/f1", "/f2", ...
SplitFile(i) == << <<102, 48 + i>> >>

\* every list of up to n files with their sizes, in every order of the sizes
SizedLists(n) ==
    UNION {{[i \in 1..k |-> <<SplitFile(i), sizes[i]>>] : sizes \in [1..k -> 0..MaxFileSize]}
           : k \in 0..n}

\* calculate_splits reads no file: the filesystem is left empty
InitSplits ==
    /\ fs = [p \in Paths |-> NoFile]
    /\ dry_run = FALSE
    /\ hash_algorithm = "sha256"
    /\ argFiles = <<>>
    /\ argStrategy = "shortest_path"
    /\ argInclude = <<>>
    /\ argExclude = <<>>
    /\ max_size_bytes \in 0..MaxFileSize
    /\ sized_files \in SizedLists(MaxSplitFiles)
    /\ ToolsIdle
    /\ Constructed

\* splitter.calculate_splits(files)
SplitsCall(files) ==
    /\ last' = [op |-> "splits", raised |-> FALSE, files |-> files,
                max_size_bytes |-> max_size_bytes,
                result |-> CalculateSplits(files, max_size_bytes)]
    /\ UNCHANGED <<fs, dry_run, hash_algorithm, file_hashes, processed_files, total_files,
                   duplicates_found, space_saved, duplicates, aliased, db_file,
                   argFiles, argStrategy, scans, envSteps,
                   filterArgs, splitterVars, toolVars>>

Splits == SplitsCall(sized_files)

NextSplits == Splits

SpecSplits == InitSplits /\ [][NextSplits]_vars

----------------------------------------------------------------------------
(* split_files.py and move_junk.py: moving files between the directories of a tree *)

\* Path.suffix and Path.stem: the name is cut at its last dot, unless that dot opens or
\* ends the name
RECURSIVE LastDot(_, _)
LastDot(name, i) ==
    IF i = 0 THEN 0 ELSE IF name[i] = 46 THEN i ELSE LastDot(name, i - 1)

Suffix(name) ==
    LET i == LastDot(name, Len(name))
    IN  IF 1 < i /\ i < Len(name) THEN SubSeq(name, i, Len(name)) ELSE <<>>

Stem(name) ==
    LET i == LastDot(name, Len(name))
    IN  IF 1 < i /\ i < Len(name) THEN SubSeq(name, 1, i - 1) ELSE name

\* str(n) for n >= 0
RECURSIVE Digits(_)
Digits(n) == IF n < 10 THEN <<48 + n>> ELSE Digits(n \div 10) \o <<48 + (n % 10)>>

\* f"{n:03d}"
Pad3(n) ==
    LET ds == Digits(n)
    IN  IF Len(ds) >= 3 THEN ds ELSE [i \in 1..(3 - Len(ds)) |-> 48] \o ds

\* f"{stem}_{counter:03d}{suffix}"
SplitterNumbered(name, counter) ==
    Stem(name) \o <<95>> \o Pad3(counter) \o Suffix(name)

\* f"{stem}_{counter}{suffix}"
OrganizerNumbered(name, counter) ==
    Stem(name) \o <<95>> \o Digits(counter) \o Suffix(name)

\* f"batch_{i+1:03d}" for the index i+1 = n
BatchName(n) == <<98, 97, 116, 99, 104, 95>> \o Pad3(n)

\* the entries of the tree: a regular file with its bytes, or a directory
FileEntry(content) == [kind |-> "file", content |-> content]

DirEntry == [kind |-> "dir", content |-> <<>>]

\* path.exists(), path.is_file(), path.is_dir()
DiskExists(d, p) == p \in DOMAIN d

IsFile(d, p) == p \in DOMAIN d /\ d[p].kind = "file"

IsDir(d, p) == p \in DOMAIN d /\ d[p].kind = "dir"

\* what directory.iterdir() yields
Entries(d, directory) == {p \in DOMAIN d : Len(p) > 0 /\ PathParent(p) = directory}

\* the order in which a directory lists its entries: by name, ascending or descending
RECURSIVE SortedPaths(_, _)
SortedPaths(S, ascending) ==
    IF S = {} THEN <<>>
    ELSE LET first == CHOOSE p \in S : \A q \in S \ {p} :
                          IF ascending THEN StrLess(PathStr(p), PathStr(q))
                          ELSE StrLess(PathStr(q), PathStr(p))
         IN  <<first>> \o SortedPaths(S \ {first}, ascending)

\* directory.mkdir(parents=True, exist_ok=True)
MkDirs(d, directory) ==
    LET missing == {SubSeq(directory, 1, k) : k \in 1..Len(directory)} \ DOMAIN d
    IN  [p \in DOMAIN d \cup missing |-> IF p \in DOMAIN d THEN d[p] ELSE DirEntry]

\* shutil.move(source, destination) within one filesystem: a rename, which puts the
\* file in the place of whatever file the destination names
Move(d, source, destination) ==
    [p \in (DOMAIN d \ {source}) \cup {destination} |->
        IF p = destination THEN d[source] ELSE d[p]]

\* shutil.copy2(source, destination)
Copy(d, source, destination) ==
    [p \in DOMAIN d \cup {destination} |-> IF p = destination THEN d[source] ELSE d[p]]

\* FileSplitter.get_file_size
GetFileSize(d, p) == IF DiskExists(d, p) THEN Len(d[p].content) ELSE 0

\* files.sort(key=lambda x: x[1], reverse=True): stable, the largest first
RECURSIVE InsertBySize(_, _)
InsertBySize(sorted, file) ==
    IF sorted = <<>> THEN <<file>>
    ELSE IF Head(sorted)[2] >= file[2]
    THEN <<Head(sorted)>> \o InsertBySize(Tail(sorted), file)
    ELSE <<file>> \o sorted

RECURSIVE SortBySize(_)
SortBySize(files) ==
    IF files = <<>> THEN <<>>
    ELSE InsertBySize(SortBySize(SubSeq(files, 1, Len(files) - 1)), files[Len(files)])

\* if size > 0: only files with a valid size are included
HasValidSize(d, p) == GetFileSize(d, p) > 0

\* FileSplitter.scan_directory(source_dir) on a directory that exists
SplitterScan(d, source_dir, ascending) ==
    LET Included(p) == IsFile(d, p) /\ HasValidSize(d, p)
        files == SelectSeq(SortedPaths(Entries(d, source_dir), ascending), Included)
    IN  SortBySize([i \in DOMAIN files |-> <<files[i], GetFileSize(d, files[i])>>])

\* create_output_directories(output_dir, num_splits): the list it returns
OutputDirectories(output_dir, num_splits) ==
    [i \in 1..num_splits |-> Append(output_dir, BatchName(i))]

\* the mkdir calls of create_output_directories, made unless dry_run
RECURSIVE MkAll(_, _)
MkAll(d, directories) ==
    IF directories = <<>> THEN d ELSE MkAll(MkDirs(d, Head(directories)), Tail(directories))

\* a variant of the loop: the first destination is taken without looking
SplitterDestinationUnchecked(d, output_dir, name, counter, destination) == destination

\* while destination.exists(): destination = output_dir / f"{stem}_{counter:03d}{suffix}"
RECURSIVE SplitterDestination(_, _, _, _, _)
SplitterDestination(d, output_dir, name, counter, destination) ==
    IF ~DiskExists(d, destination) THEN destination
    ELSE SplitterDestination(d, output_dir, name, counter + 1,
                             Append(output_dir, SplitterNumbered(name, counter)))

\* the running state of a tool: the tree and the moves made or tried so far
Moving(d) == [disk |-> d, moves |-> <<>>]

\* one file of move_files or flatten_directory: the free destination, then shutil.move
\* unless dry_run; a move of a file in `denied`, of one that is gone, or into a
\* directory that is not there raises OSError, which is caught
SplitterMove(r, file_path, output_dir, dry, denied) ==
    LET destination == SplitterDestination(r.disk, output_dir, PathName(file_path), 1,
                                           Append(output_dir, PathName(file_path)))
        done == /\ ~dry
                /\ file_path \notin denied
                /\ DiskExists(r.disk, file_path)
                /\ IsDir(r.disk, output_dir)
    IN  [disk |-> IF done THEN Move(r.disk, file_path, destination) ELSE r.disk,
         moves |-> Append(r.moves,
                          [source |-> file_path, target_dir |-> output_dir,
                           destination |-> destination, before |-> r.disk,
                           moved |-> done, failed |-> ~dry /\ ~done])]

\* for file_path, file_size in split
RECURSIVE MoveSplit(_, _, _, _, _)
MoveSplit(r, split, output_dir, dry, denied) ==
    IF split = <<>> THEN r
    ELSE MoveSplit(SplitterMove(r, Head(split)[1], output_dir, dry, denied),
                   Tail(split), output_dir, dry, denied)

\* move_files(splits, output_dirs): for split, output_dir in zip(splits, output_dirs)
RECURSIVE MoveFiles(_, _, _, _, _)
MoveFiles(r, splits, output_dirs, dry, denied) ==
    IF splits = <<>> \/ output_dirs = <<>> THEN r
    ELSE MoveFiles(MoveSplit(r, Head(splits), Head(output_dirs), dry, denied),
                   Tail(splits), Tail(output_dirs), dry, denied)

\* what a run of a tool over the tree leaves behind
ToolRun(d, call) ==
    /\ disk' = d
    /\ scans' = scans + 1
    /\ last' = call
    /\ UNCHANGED <<fs, dry_run, hash_algorithm, file_hashes, processed_files, total_files,
                   duplicates_found, space_saved, duplicates, aliased, db_file,
                   argFiles, argStrategy, envSteps, filterArgs, splitterVars>>

\* split_directory(source_dir, output_dir)
SplitDirectory(source_dir, output_dir, ascending, denied) ==
    /\ scans < MaxScans
    /\ UNCHANGED organizer
    /\ LET call == [op |-> "split", source_dir |-> source_dir, output_dir |-> output_dir,
                    before |-> disk]
       IN  IF ~IsDir(disk, source_dir)
           THEN ToolRun(disk, call @@ [raised |-> TRUE, files |-> <<>>, moves |-> <<>>])
           ELSE \E files \in {SplitterScan(disk, source_dir, ascending)} :
                \E splits \in {CalculateSplits(files, max_size_bytes)} :
                \E output_dirs \in {OutputDirectories(output_dir, Len(splits))} :
                \E r \in {MoveFiles(Moving(IF dry_run THEN disk
                                           ELSE MkAll(MkDirs(disk, output_dir), output_dirs)),
                                    splits, output_dirs, dry_run, denied)} :
                    IF files = <<>>
                    THEN ToolRun(disk, call @@ [raised |-> FALSE, files |-> <<>>,
                                                moves |-> <<>>])
                    ELSE ToolRun(r.disk, call @@ [raised |-> FALSE, files |-> files,
                                                  splits |-> splits, moves |-> r.moves])

\* for file_path in subdir.iterdir(): if file_path.is_file(): move it to output_dir
RECURSIVE FlattenFiles(_, _, _, _, _)
FlattenFiles(r, files, output_dir, dry, denied) ==
    IF files = <<>> THEN r
    ELSE FlattenFiles(IF IsFile(r.disk, Head(files))
                      THEN SplitterMove(r, Head(files), output_dir, dry, denied)
                      ELSE r,
                      Tail(files), output_dir, dry, denied)

\* for subdir in source_dir.iterdir(): if subdir.is_dir(): ...
RECURSIVE FlattenSubdirs(_, _, _, _, _, _)
FlattenSubdirs(r, subdirs, output_dir, ascending, dry, denied) ==
    IF subdirs = <<>> THEN r
    ELSE FlattenSubdirs(IF IsDir(r.disk, Head(subdirs))
                        THEN FlattenFiles(r, SortedPaths(Entries(r.disk, Head(subdirs)),
                                                         ascending),
                                          output_dir, dry, denied)
                        ELSE r,
                        Tail(subdirs), output_dir, ascending, dry, denied)

\* flatten_directory(source_dir, output_dir); iterdir raises when source_dir is no
\* directory, after output_dir has been made
FlattenDirectory(source_dir, output_dir, ascending, denied) ==
    /\ scans < MaxScans
    /\ UNCHANGED organizer
    /\ LET call == [op |-> "flatten", source_dir |-> source_dir,
                    output_dir |-> output_dir, before |-> disk]
           made == IF dry_run THEN disk ELSE MkDirs(disk, output_dir)
       IN  IF ~IsDir(disk, source_dir)
           THEN ToolRun(made, call @@ [raised |-> TRUE, moves |-> <<>>])
           ELSE \E r \in {FlattenSubdirs(Moving(made),
                                         SortedPaths(Entries(made, source_dir), ascending),
                                         output_dir, ascending, dry_run, denied)} :
                    ToolRun(r.disk, call @@ [raised |-> FALSE, moves |-> r.moves])

\* while target_file.exists(): target_file = target_dir / f"{stem}_{counter}{suffix}"
RECURSIVE OrganizerDestination(_, _, _, _, _)
OrganizerDestination(d, target_dir, name, counter, target_file) ==
    IF ~DiskExists(d, target_file) THEN target_file
    ELSE OrganizerDestination(d, target_dir, name, counter + 1,
                              Append(target_dir, OrganizerNumbered(name, counter)))

\* FileExtensionOrganizer.move_file(source, target_dir): the free target, then the copy
\* or the move unless dry_run. `returned` is its result: True also for a dry run, False
\* when the move of a file in `denied`, of one that is gone, or into a directory that
\* is not there raised
MoveFileRun(r, source, target_dir, dry, copy, denied) ==
    LET target_file == OrganizerDestination(r.disk, target_dir, PathName(source), 1,
                                            Append(target_dir, PathName(source)))
        done == /\ ~dry
                /\ source \notin denied
                /\ DiskExists(r.disk, source)
                /\ IsDir(r.disk, target_dir)
    IN  [disk |-> IF ~done THEN r.disk
                  ELSE IF copy THEN Copy(r.disk, source, target_file)
                  ELSE Move(r.disk, source, target_file),
         moves |-> Append(r.moves,
                          [source |-> source, target_dir |-> target_dir,
                           destination |-> target_file, before |-> r.disk,
                           moved |-> done, failed |-> ~dry /\ ~done]),
         returned |-> dry \/ done]

\* organizer.move_file(source, target_dir) called on its own
MoveFile(source, target_dir, denied) ==
    /\ scans < MaxScans
    /\ UNCHANGED organizer
    /\ \E r \in {MoveFileRun(Moving(disk), source, target_dir, dry_run, organizer.copy,
                             denied)} :
          ToolRun(r.disk, [op |-> "move_file", raised |-> FALSE, source |-> source,
                           target_dir |-> target_dir, before |-> disk,
                           moves |-> r.moves, result |-> r.returned])

\* the value get_file_hash returns when it cannot compute a hash: the empty string
NoHash == <<>>

\* get_file_hash(file_path): the md5 hexdigest of the content; "" when the file cannot be
\* opened or read (it is not there, is no regular file, or is in `unreadable`)
GetFileHash(d, p, unreadable) ==
    IF ~IsFile(d, p) \/ p \in unreadable THEN NoHash ELSE HexDigest("md5", d[p].content)

\* files_are_identical(file1, file2) under self.dedupe_method; stat() of a path that is
\* not there raises, which makes the answer False
FilesAreIdentical(d, method, file1, file2, unreadable) ==
    IF method = "size"
    THEN /\ DiskExists(d, file1)
         /\ DiskExists(d, file2)
         /\ GetFileSize(d, file1) = GetFileSize(d, file2)
    ELSE IF method = "hash"
    THEN GetFileHash(d, file1, unreadable) = GetFileHash(d, file2, unreadable)
    ELSE IF method = "both"
    THEN /\ DiskExists(d, file1)
         /\ DiskExists(d, file2)
         /\ GetFileSize(d, file1) = GetFileSize(d, file2)
         /\ GetFileHash(d, file1, unreadable) = GetFileHash(d, file2, unreadable)
    ELSE FALSE

\* file_path.suffix.lower().lstrip('.')
FileExt(p) ==
    LET suffix == Suffix(PathName(p))
    IN  IF suffix = <<>> THEN <<>> ELSE Lower(Tail(suffix))

\* find_files_by_extensions: the files under source_dir with the extension ext, in the
\* order rglob yields them
FilesByExt(d, source_dir, ext, ascending) ==
    LET Wanted(p) == IsFile(d, p) /\ FileExt(p) = ext
        under == {p \in DOMAIN d : IsPrefix(source_dir, p) /\ p /= source_dir}
    IN  SelectSeq(SortedPaths(under, ascending), Wanted)

\* output_dir / f"{ext}_files"
ExtDir(output_dir, ext) == Append(output_dir, ext \o <<95, 102, 105, 108, 101, 115>>)

\* the running state of organize_files: the tree, the moves, self.stats, and the source
\* files it took for duplicates
Organizing(d, stats) == [disk |-> d, moves |-> <<>>, stats |-> stats, skipped |-> <<>>]

\* remove_duplicate_file(file_path): True for a dry run and for an unlink that worked
RemoveDuplicateFile(d, file_path, dry, denied) ==
    LET done == ~dry /\ file_path \notin denied /\ DiskExists(d, file_path)
    IN  [disk |-> IF done THEN [p \in DOMAIN d \ {file_path} |-> d[p]] ELSE d,
         returned |-> dry \/ done]

\* the body of `for file_path in batch`: the duplicate check against every entry of the
\* target directory, then the removal of the source file or the move
OrganizeFile(r, cfg, file_path, target_dir, dry, unreadable, denied) ==
    LET is_duplicate ==
            /\ cfg.skip_duplicates
            /\ \E existing_file \in Entries(r.disk, target_dir) :
                  FilesAreIdentical(r.disk, cfg.dedupe_method, file_path, existing_file,
                                    unreadable)
        rm == RemoveDuplicateFile(r.disk, file_path, dry, denied)
        mv == MoveFileRun([disk |-> r.disk, moves |-> r.moves], file_path, target_dir,
                          dry, cfg.copy,
                          IF cfg.copy THEN denied \cup unreadable ELSE denied)
    IN  IF is_duplicate
        THEN IF cfg.remove_source_dupes
             THEN [r EXCEPT !.disk = rm.disk,
                            !.stats.duplicates_skipped = @ + 1,
                            !.stats.duplicates_removed = IF rm.returned THEN @ + 1 ELSE @,
                            !.skipped = Append(@, file_path)]
             ELSE [r EXCEPT !.stats.duplicates_skipped = @ + 1,
                            !.skipped = Append(@, file_path)]
        ELSE [r EXCEPT !.disk = mv.disk,
                       !.moves = mv.moves,
                       !.stats.moved = IF mv.returned THEN @ + 1 ELSE @,
                       !.stats.errors = IF mv.returned THEN @ ELSE @ + 1]

RECURSIVE OrganizeBatch(_, _, _, _, _, _, _)
OrganizeBatch(r, cfg, batch, target_dir, dry, unreadable, denied) ==
    IF batch = <<>> THEN r
    ELSE OrganizeBatch(OrganizeFile(r, cfg, Head(batch), target_dir, dry, unreadable, denied),
                       cfg, Tail(batch), target_dir, dry, unreadable, denied)

\* if self.max_files and self.stats['moved'] >= self.max_files: max_files is 0 when no
\* limit is set (None and 0 are both false there)
LimitReached(cfg, stats) == cfg.max_files /= 0 /\ stats.moved >= cfg.max_files

\* for i in range(0, len(files), self.batch_size), i counted from 0: the limit is looked
\* at before each batch, then files[i:i+batch_size] is gone through
RECURSIVE OrganizeBatches(_, _, _, _, _, _, _, _)
OrganizeBatches(r, cfg, files, i, target_dir, dry, unreadable, denied) ==
    IF i >= Len(files) \/ LimitReached(cfg, r.stats) THEN r
    ELSE LET upto == IF i + cfg.batch_size < Len(files) THEN i + cfg.batch_size
                     ELSE Len(files)
         IN  OrganizeBatches(OrganizeBatch(r, cfg, SubSeq(files, i + 1, upto), target_dir,
                                           dry, unreadable, denied),
                             cfg, files, i + cfg.batch_size, target_dir, dry, unreadable,
                             denied)

\* for ext, files in files_by_ext.items(): files_by_ext was filled before anything moved
RECURSIVE OrganizeExtensions(_, _, _, _, _, _, _, _)
OrganizeExtensions(r, cfg, exts, files_by_ext, output_dir, dry, unreadable, denied) ==
    IF exts = <<>> THEN r
    ELSE OrganizeExtensions(
             OrganizeBatches(r, cfg, Head(files_by_ext), 0, ExtDir(output_dir, Head(exts)),
                             dry, unreadable, denied),
             cfg, Tail(exts), Tail(files_by_ext), output_dir, dry, unreadable, denied)

\* organize_files() of an organizer over source_dir and output_dir with the extensions
\* exts; check_space is off
OrganizeFiles(source_dir, output_dir, exts, ascending, unreadable, denied) ==
    /\ scans < MaxOrganizerCalls
    /\ \E files_by_ext \in {[k \in DOMAIN exts |->
                               FilesByExt(disk, source_dir, exts[k], ascending)]} :
       \E processed \in {organizer.stats.processed +
                         SeqSum([k \in DOMAIN exts |-> Len(files_by_ext[k])])} :
       \E made \in {IF dry_run \/ processed = 0 THEN disk
                    ELSE MkAll(disk, [k \in DOMAIN exts |-> ExtDir(output_dir, exts[k])])} :
       \E r \in {IF processed = 0
                 THEN Organizing(disk, organizer.stats)
                 ELSE OrganizeExtensions(
                          Organizing(made, [organizer.stats EXCEPT !.processed = processed]),
                          organizer, exts, files_by_ext, output_dir, dry_run, unreadable,
                          denied)} :
          /\ organizer' = [organizer EXCEPT !.stats = r.stats]
          /\ ToolRun(r.disk, [op |-> "organize", raised |-> FALSE, before |-> disk,
                              stats_before |-> organizer.stats, unreadable |-> unreadable,
                              moves |-> r.moves, skipped |-> r.skipped])

\* organizer.files_are_identical(file1, file2) called on its own
IdenticalCall(file1, file2, unreadable) ==
    /\ scans < MaxOrganizerCalls
    /\ UNCHANGED organizer
    /\ ToolRun(disk, [op |-> "identical", raised |-> FALSE, file1 |-> file1,
                      file2 |-> file2, unreadable |-> unreadable,
                      result |-> FilesAreIdentical(disk, organizer.dedupe_method,
                                                   file1, file2, unreadable)])

\* the names "a.t" and "b", the directories "/s", "/o" and "/x" (which is never there),
\* and the batch directories of "/o"
NameAt == <<97, 46, 116>>

NameB == <<98>>

SourceDir == << <<115>> >>

OutputDir == << <<111>> >>

MissingDir == << <<120>> >>

Batch(n) == Append(OutputDir, BatchName(n))

\* the files a tree may hold before the first run: "a.t" and "b" in "/s"; "a.t" and
\* the numbered names "a_001.t" and "a_1.t" in "/o/batch_001"; "a.t" in "/o/batch_002"
SeedPaths ==
    {Append(SourceDir, NameAt), Append(SourceDir, NameB),
     Append(Batch(1), NameAt), Append(Batch(1), SplitterNumbered(NameAt, 1)),
     Append(Batch(1), OrganizerNumbered(NameAt, 1)), Append(Batch(2), NameAt)}

\* the contents a seed file may have; the file "/s/a.t" may be empty
SeedContents(p) ==
    IF p = Append(SourceDir, NameAt) THEN {<<>>, <<1>>, <<2, 2>>}
    ELSE IF p = Append(SourceDir, NameB) THEN {<<1>>}
    ELSE IF p = Append(Batch(2), NameAt) THEN {<<8>>}
    ELSE {<<9>>}

\* the tree that holds the files of `files` (path -> content), their directories and "/s"
TreeOf(files) ==
    LET dirs == {SourceDir} \cup
                UNION {{SubSeq(p, 1, k) : k \in 1..(Len(p) - 1)} : p \in DOMAIN files}
    IN  [p \in DOMAIN files \cup dirs |->
            IF p \in DOMAIN files THEN FileEntry(files[p]) ELSE DirEntry]

Trees ==
    UNION {{TreeOf(files) : files \in {f \in [P -> UNION {SeedContents(p) : p \in P}] :
                                          \A p \in P : f[p] \in SeedContents(p)}}
           : P \in SUBSET SeedPaths}

\* a FileSplitter and a FileExtensionOrganizer in front of a tree
InitMove ==
    /\ fs = [p \in Paths |-> NoFile]
    /\ dry_run \in BOOLEAN
    /\ hash_algorithm = "sha256"
    /\ argFiles = <<>>
    /\ argStrategy = "shortest_path"
    /\ argInclude = <<>>
    /\ argExclude = <<>>
    /\ max_size_bytes \in 1..MaxSplitSize
    /\ sized_files = <<>>
    /\ disk \in Trees
    /\ organizer \in [copy : BOOLEAN, stats : {NoStats}]
    /\ Constructed

Split == \E source_dir \in {SourceDir, MissingDir}, ascending \in BOOLEAN,
            denied \in {D \in SUBSET Entries(disk, SourceDir) : Cardinality(D) <= MaxDenied} :
             SplitDirectory(source_dir, OutputDir, ascending, denied)

Flatten == \E source_dir \in {OutputDir, MissingDir}, ascending \in BOOLEAN,
              denied \in {D \in SUBSET Entries(disk, Batch(1)) : Cardinality(D) <= MaxDenied} :
               FlattenDirectory(source_dir, SourceDir, ascending, denied)

MoveOne == \E source \in Entries(disk, SourceDir),
              denied \in {D \in SUBSET Entries(disk, SourceDir) : Cardinality(D) <= MaxDenied} :
               MoveFile(source, Batch(1), denied)

\* the three operations that move files into a directory
NextMove ==
    \/ Split
    \/ Flatten
    \/ MoveOne

SpecMove == InitMove /\ [][NextMove]_vars

\* the extensions "t" and "u", the name "b.t", and the directory "/o/t_files"
ExtT == <<116>>

ExtU == <<117>>

NameBt == <<98, 46, 116>>

TFiles == ExtDir(OutputDir, ExtT)

\* the files a tree may hold before an organizer runs: "a.t", "b.t" and "c.u" in "/s",
\* and "a.t" in "/o/t_files"
OrganizerPaths ==
    {Append(SourceDir, NameAt), Append(SourceDir, NameBt),
     Append(SourceDir, <<99, 46, 117>>), Append(TFiles, NameAt)}

\* the contents they may have: "/o/t_files/a.t" is as long as "/s/a.t", with the same
\* content or another
OrganizerContents(p) ==
    IF p = Append(SourceDir, NameAt) THEN {<<1>>}
    ELSE IF p = Append(TFiles, NameAt) THEN {<<1>>, <<2>>}
    ELSE IF p = Append(SourceDir, NameBt) THEN {<<2, 2>>}
    ELSE {<<3>>}

OrganizerTrees ==
    UNION {{TreeOf(files) : files \in {f \in [P -> UNION {OrganizerContents(p) : p \in P}] :
                                          \A p \in P : f[p] \in OrganizerContents(p)}}
           : P \in {Q \in SUBSET OrganizerPaths : Append(SourceDir, NameBt) \in Q}}

\* the settings of a FileExtensionOrganizer; max_files is 0 when it is not given
OrganizerSettings ==
    {o \in [max_files : 0..MaxFilesLimit, batch_size : 1..MaxBatchSize,
            skip_duplicates : BOOLEAN, remove_source_dupes : BOOLEAN,
            dedupe_method : {"size", "hash", "both"}, copy : BOOLEAN, stats : {NoStats}] :
        o.remove_source_dupes => o.skip_duplicates}

\* a FileExtensionOrganizer in front of a tree
InitOrganize ==
    /\ fs = [p \in Paths |-> NoFile]
    /\ dry_run \in BOOLEAN
    /\ hash_algorithm = "sha256"
    /\ argFiles = <<>>
    /\ argStrategy = "shortest_path"
    /\ argInclude = <<>>
    /\ argExclude = <<>>
    /\ max_size_bytes = 0
    /\ sized_files = <<>>
    /\ disk \in OrganizerTrees
    /\ organizer \in OrganizerSettings
    /\ Constructed

Organize == \E exts \in {<<ExtT>>, <<ExtT, ExtU>>, <<ExtU, ExtT>>}, ascending \in BOOLEAN,
               unreadable \in SUBSET {Append(SourceDir, NameAt), Append(TFiles, NameAt)},
               denied \in {D \in SUBSET {Append(SourceDir, NameAt)} :
                              Cardinality(D) <= MaxDenied} :
                OrganizeFiles(SourceDir, OutputDir, exts, ascending, unreadable, denied)

Identical == \E file1 \in Entries(disk, SourceDir), file2 \in Entries(disk, TFiles),
                unreadable \in SUBSET {Append(SourceDir, NameAt), Append(TFiles, NameAt)} :
                 IdenticalCall(file1, file2, unreadable)

\* runs of organize_files and calls of files_are_identical
NextOrganize ==
    \/ Organize
    \/ Identical

SpecOrganize == InitOrganize /\ [][NextOrganize]_vars

----------------------------------------------------------------------------
(* Properties *)

\* the paths of all the duplicate sets handed to a call
PathsOfSets(sets) == UNION {Range(sets[i][2]) : i \in DOMAIN sets}

\* s sorts strictly before t: at the first difference s has the smaller character,
\* or s is a proper prefix of t
SortsBefore(s, t) ==
    \/ Len(s) < Len(t) /\ SubSeq(t, 1, Len(s)) = s
    \/ \E i \in 1..Len(s) :
          /\ i <= Len(t)
          /\ SubSeq(s, 1, i - 1) = SubSeq(t, 1, i - 1)
          /\ s[i] < t[i]

\* C1: a dry-run remove_duplicates call, whatever the duplicate sets and the strategy and
\* whether it returns or raises, leaves every path with the existence, content and
\* modification time it had before the call.
C1_DryRunKeepsFilesystem ==
    (last.op = "remove" /\ dry_run) => fs = last.fs_before

\* a dry run went over a duplicate set and counted the space of its non-keepers
C1_Witness ==
    /\ last.op = "remove"
    /\ dry_run
    /\ ~last.raised
    /\ last.targets /= <<>>
    /\ space_saved > 0

\* C2 as claimed: after a live remove_duplicates call that returned with every deletion
\* succeeding, the keeper of every duplicate set is still there if it was there before
\* the call, every other member of the sets is gone and every file outside the sets is
\* as it was.
C2_KeepersSurviveOthersGone ==
    (last.op = "remove" /\ ~dry_run /\ ~last.raised /\ last.failed = <<>>) =>
        /\ \A i \in DOMAIN last.keepers :
              Exists(last.fs_before, last.keepers[i]) => Exists(fs, last.keepers[i])
        /\ \A i \in DOMAIN last.sets :
              \A p \in Range(last.sets[i][2]) : p /= last.keepers[i] => ~Exists(fs, p)
        /\ \A p \in Paths \ PathsOfSets(last.sets) : fs[p] = last.fs_before[p]

\* C3 as claimed: a live remove_duplicates call whose keepers were all chosen returns
\* normally, having attempted the deletion of every non-keeper of every set.
C3_RemovalNeverRaises ==
    (last.op = "remove" /\ ~dry_run /\ last.raised_at /= "choose") =>
        /\ ~last.raised
        /\ last.attempted = last.targets

\* a filesystem that holds nothing but what the calls f.stat() on the listed files saw
StatsOnly(files, stats) ==
    [p \in Paths |->
        IF \E i \in DOMAIN files : files[i] = p /\ stats[i].exists
        THEN [exists |-> TRUE, content |-> <<>>,
              mtime |-> stats[CHOOSE i \in DOMAIN files : files[i] = p].mtime]
        ELSE NoFile]

\* C4: whenever choose_file_to_keep returns, the path it returns is one of the paths it
\* was given, and it is the path the call returns in any filesystem where the listed
\* files have the same modification times: the result depends on the list, the strategy
\* and those times alone.
C4_ReturnsMemberOfListDeterministically ==
    (last.op = "choose" /\ ~last.raised) =>
        /\ \E i \in DOMAIN last.files : last.files[i] = last.result
        /\ last.result = ChooseFileToKeep(last.files, last.strategy,
                                          StatsOnly(last.files, last.stats)).value

\* the oldest of two files was chosen by their times although their sizes differ
C4_Witness ==
    /\ last.op = "choose"
    /\ ~last.raised
    /\ last.strategy = "oldest"
    /\ Len(last.files) = 2
    /\ last.stats[1].mtime > last.stats[2].mtime
    /\ StSize(fs, last.files[1]) < StSize(fs, last.files[2])
    /\ last.result = last.files[2]

\* C5 as claimed: on a non-empty list choose_file_to_keep returns a path, whatever the
\* strategy and whichever of the listed files are gone.
C5_ChooseNeverRaises ==
    (last.op = "choose" /\ last.files /= <<>>) => ~last.raised

\* C6: on two or more paths choose_file_to_keep returns, for shortest_path, the first
\* listed path of minimum string length; for oldest a path of minimum and for newest of
\* maximum modification time; for largest_name a path with the longest base name; for
\* first_alphabetical a path whose lower-cased string no other sorts before.
C6_StrategyTable ==
    (last.op = "choose" /\ ~last.raised /\ Len(last.files) >= 2) =>
        LET S == last.files
            r == last.result
            StrLen(p) == Len(PathStr(p))
        IN  /\ last.strategy = "shortest_path" =>
                \E k \in DOMAIN S :
                    /\ S[k] = r
                    /\ \A j \in DOMAIN S : StrLen(S[j]) >= StrLen(r)
                    /\ \A j \in 1..(k - 1) : StrLen(S[j]) > StrLen(r)
            /\ last.strategy = "oldest" =>
                \E k \in DOMAIN S :
                    /\ S[k] = r
                    /\ \A j \in DOMAIN S : last.stats[j].mtime >= last.stats[k].mtime
            /\ last.strategy = "newest" =>
                \E k \in DOMAIN S :
                    /\ S[k] = r
                    /\ \A j \in DOMAIN S : last.stats[j].mtime <= last.stats[k].mtime
            /\ last.strategy = "largest_name" =>
                /\ r \in Range(S)
                /\ \A j \in DOMAIN S : Len(PathName(S[j])) <= Len(PathName(r))
            /\ last.strategy = "first_alphabetical" =>
                /\ r \in Range(S)
                /\ \A j \in DOMAIN S : ~SortsBefore(Lower(PathStr(S[j])), Lower(PathStr(r)))

\* "/a" was kept before "/D/cc", which sorts first only while its "D" is upper case
C6_Witness ==
    /\ last.op = "choose"
    /\ ~last.raised
    /\ last.strategy = "first_alphabetical"
    /\ last.files = <<PathDcc, PathLa>>
    /\ last.result = PathLa

\* C7: with a strategy name that is none of the five, choose_file_to_keep does not raise
\* and returns the first listed path of minimum string length, as shortest_path does.
C7_UnknownStrategyIsShortestPath ==
    (last.op = "choose" /\ last.files /= <<>> /\ last.strategy \notin KnownStrategies) =>
        /\ ~last.raised
        /\ last.result = ChooseFileToKeep(last.files, "shortest_path", fs).value
        /\ \A j \in DOMAIN last.files :
              Len(PathStr(last.files[j])) >= Len(PathStr(last.result))

\* an unknown strategy kept the shorter path, which was not the first listed
C7_Witness ==
    /\ last.op = "choose"
    /\ ~last.raised
    /\ last.strategy = "SHORTEST_PATH"
    /\ last.files = <<PathDcc, PathUa>>
    /\ last.result = PathUa

\* C8: find_duplicates returns, in the order of the index, exactly the entries of the
\* index that list two or more paths, each with its whole path list; an index of
\* single-path digests gives the empty result.
C8_FindReturnsExactlyMultiPathEntries ==
    last.op = "find" =>
        LET index == last.index_before
            result == last.result
        IN  /\ duplicates = result
            /\ \A i \in DOMAIN result :
                  /\ Len(result[i][2]) >= 2
                  /\ \E k \in DOMAIN index : index[k] = result[i]
            /\ \A k \in DOMAIN index :
                  Len(index[k][2]) >= 2 => \E i \in DOMAIN result : result[i] = index[k]
            /\ (\A k \in DOMAIN index : Len(index[k][2]) = 1) => result = <<>>

\* the index held a digest with one path and a digest with several; one set was returned
C8_Witness ==
    /\ last.op = "find"
    /\ Len(last.result) = 1
    /\ \E k \in DOMAIN last.index_before : Len(last.index_before[k][2]) = 1

\* C9: after find_duplicates, duplicates_found is the number of paths in the returned
\* sets less the number of sets (each set of N paths counts N-1), whatever it was before.
C9_DuplicatesFoundIsRecomputed ==
    last.op = "find" =>
        duplicates_found =
            SeqSum([i \in DOMAIN last.result |-> Len(last.result[i][2])]) - Len(last.result)

\* find_duplicates ran again on an instance whose counter was already set
C9_Witness ==
    /\ last.op = "find"
    /\ last.found_before > 0
    /\ duplicates_found > 0
    /\ \E i \in DOMAIN last.result : Len(last.result[i][2]) >= 3

\* C10: find_duplicates, choose_file_to_keep, remove_duplicates, generate_report and
\* save_hash_database leave the index as it was: the same digests in the same order,
\* each with the same path list.
C10_IndexChangedOnlyByScanAndLoad ==
    last.op \in {"find", "choose", "remove", "report", "save"} =>
        file_hashes = last.index_before

\* a live removal deleted a file that the index still lists
C10_Witness ==
    /\ last.op = "remove"
    /\ ~dry_run
    /\ last.removed_count > 0
    /\ \E i \in DOMAIN file_hashes : \E p \in Range(file_hashes[i][2]) : ~Exists(fs, p)

\* the paths listed under a digest in an index, <<>> when the digest is not a key
PathsUnder(index, digest) ==
    IF \E k \in DOMAIN index : index[k][1] = digest
    THEN index[CHOOSE k \in DOMAIN index : index[k][1] = digest][2]
    ELSE <<>>

\* the digests that are keys of an index
Digests(index) == {index[k][1] : k \in DOMAIN index}

\* C13 as claimed: whatever scans an instance has made, no digest of its index lists a
\* path twice.
C13_NoPathTwiceUnderADigest ==
    \A k \in DOMAIN file_hashes :
        \A i, j \in DOMAIN file_hashes[k][2] :
            i /= j => file_hashes[k][2][i] /= file_hashes[k][2][j]

\* C14: a scan_directory call on a directory returns whichever candidate files cannot be
\* read; it appends to the index exactly the candidates that were read, each under the
\* digest of its content and in the order of the scan, and processed_files grows by
\* their number.
C14_ScanSkipsUnreadableFiles ==
    (last.op = "scan" /\ last.root \in Dirs) =>
        /\ ~last.raised
        /\ LET WasRead(p) == p \notin last.unreadable
               read == SelectSeq(last.files_to_process, WasRead)
               before == last.before.file_hashes
           IN  /\ processed_files = last.before.processed_files + Len(read)
               /\ Digests(file_hashes) =
                     Digests(before) \cup
                     {<<hash_algorithm, fs[read[i]].content>> : i \in DOMAIN read}
               /\ \A d \in Digests(file_hashes) :
                     LET Has(p) == <<hash_algorithm, fs[p].content>> = d
                     IN  PathsUnder(file_hashes, d) =
                             PathsUnder(before, d) \o SelectSeq(read, Has)

\* one candidate of a scan was read and indexed, another could not be read
C14_Witness ==
    /\ last.op = "scan"
    /\ ~last.raised
    /\ \E p, q \in Range(last.files_to_process) :
          /\ p \in last.unreadable
          /\ q \notin last.unreadable
    /\ processed_files > last.before.processed_files
    /\ processed_files < last.before.processed_files + total_files

\* C15: after the first scan of an instance, all of whose candidates were read, two
\* candidates are listed under one digest exactly when their contents are equal, and
\* find_duplicates would return a set exactly for each content that two or more
\* candidates hold, listing those candidates.
C15_SameDigestIffSameContent ==
    (/\ last.op = "scan"
     /\ ~last.raised
     /\ last.before.file_hashes = <<>>
     /\ Range(last.files_to_process) \cap last.unreadable = {}) =>
        LET scanned == Range(last.files_to_process)
            Together(p, q) == \E k \in DOMAIN file_hashes :
                                  {p, q} \subseteq Range(file_hashes[k][2])
            Holders(c) == {p \in scanned : fs[p].content = c}
            sets == DuplicateSets(file_hashes)
        IN  /\ \A p, q \in scanned : Together(p, q) <=> fs[p].content = fs[q].content
            /\ \A c \in Contents :
                  Cardinality(Holders(c)) >= 2 <=>
                      \E i \in DOMAIN sets : Range(sets[i][2]) = Holders(c)
            /\ \A i \in DOMAIN sets : \E c \in Contents : Range(sets[i][2]) = Holders(c)

\* a first scan met two files of one content and a file of another
C15_Witness ==
    /\ last.op = "scan"
    /\ ~last.raised
    /\ last.before.file_hashes = <<>>
    /\ last.unreadable = {}
    /\ Len(last.files_to_process) = 3
    /\ Len(file_hashes) = 2
    /\ Len(DuplicateSets(file_hashes)) = 1

\* C17: scan_directory raises exactly when its root is not a directory, also right after
\* a scan that raised, and a scan that raises leaves the index, processed_files,
\* total_files, duplicates_found and space_saved as they were.
C17_InvalidRootLeavesInstanceUnchanged ==
    last.op = "scan" =>
        /\ last.raised <=> last.root \notin Dirs
        /\ last.raised => InstanceState = last.before

\* a scan was refused on an instance that had scanned files before
C17_Witness ==
    /\ last.op = "scan"
    /\ last.raised
    /\ last.before.total_files > 0
    /\ last.before.file_hashes /= <<>>

\* a scan of a directory went through right after a scan that was refused
C17_WitnessLaterScan ==
    /\ last.op = "scan"
    /\ ~last.raised
    /\ last.after_failure
    /\ file_hashes /= <<>>

\* C11: after load_hash_database has read a snapshot that save_hash_database wrote, the
\* instance has the hash algorithm and the processed-file count of the instance that
\* saved, the same digests and under every digest the same paths.
C11_SaveLoadRoundTrip ==
    (last.op = "load" /\ ~last.raised) =>
        LET saved == db_file.saved_from
        IN  /\ hash_algorithm = saved.hash_algorithm
            /\ processed_files = saved.processed_files
            /\ Digests(file_hashes) = Digests(saved.file_hashes)
            /\ \A d \in Digests(saved.file_hashes) :
                  Range(PathsUnder(file_hashes, d)) = Range(PathsUnder(saved.file_hashes, d))

\* a new instance made for another algorithm loaded an index of two digests, one of them
\* listing a path below a subdirectory
C11_Witness ==
    /\ last.op = "load"
    /\ ~last.raised
    /\ last.before.file_hashes = <<>>
    /\ last.before.hash_algorithm /= hash_algorithm
    /\ Len(file_hashes) = 2
    /\ \E k \in DOMAIN file_hashes : PathDcc \in Range(file_hashes[k][2])
    /\ processed_files > 0

\* C12: load_hash_database on a snapshot file that lacks "metadata", "algorithm",
\* "total_files" or "hashes" raises, and the instance is left with the index it had or
\* with an empty one: nothing of the snapshot is taken for an index.
C12_LoadOfIncompleteSnapshotRaises ==
    (last.op = "load" /\ last.db.exists /\ last.db.lacks /= {}) =>
        /\ last.raised
        /\ file_hashes \in {last.before.file_hashes, <<>>}

\* a snapshot with its algorithm but without its file count was refused
C12_Witness ==
    /\ last.op = "load"
    /\ last.raised
    /\ last.db.exists
    /\ last.db.lacks = {"total_files"}
    /\ last.db.hashes /= <<>>

\* C16: _filter_files returns the given files, in their order, that match an include
\* pattern when there are include patterns and match no exclude pattern, base names and
\* patterns compared in lower case; a file that matches both is dropped.
C16_FilterKeepsIncludedNotExcluded ==
    last.op = "filter" =>
        LET Name(p) == Lower(PathName(p))
            Included(p) == \/ last.include = <<>>
                           \/ \E i \in DOMAIN last.include :
                                  FnMatch(Name(p), Lower(last.include[i]))
            Excluded(p) == \E i \in DOMAIN last.exclude :
                               FnMatch(Name(p), Lower(last.exclude[i]))
            Kept(p) == Included(p) /\ ~Excluded(p)
        IN  last.result = SelectSeq(last.files, Kept)

\* "/A" matched the include pattern "?" and the exclude pattern "A" and was dropped,
\* "/D/cc" matched the include pattern "C*" and was kept
C16_Witness ==
    /\ last.op = "filter"
    /\ last.files = <<PathUa, PathDcc>>
    /\ last.include = << <<63>>, <<67, 42>> >>
    /\ last.exclude = << <<65>> >>
    /\ last.result = <<PathDcc>>

\* C19 as claimed: after a remove_duplicates pass that began with space_saved at 0, a
\* live pass leaves in space_saved the sizes of the files it deleted and a dry-run pass
\* the sizes of all the non-keepers.
C19_SpaceSavedIsWhatWasDeleted ==
    (last.op = "remove" /\ ~last.raised /\ last.space_before = 0) =>
        LET Size(p) == StSize(last.fs_before, p)
            Deleted(p) == p \notin Range(last.failed)
            deleted == SelectSeq(last.attempted, Deleted)
        IN  space_saved =
                IF dry_run
                THEN SeqSum([i \in DOMAIN last.targets |-> Size(last.targets[i])])
                ELSE SeqSum([i \in DOMAIN deleted |-> Size(deleted[i])])

C18_WitnessRemovalFailed ==
    /\ last.op = "main"
    /\ last.failed_in = "remove"
    /\ last.code = 1

\* C20: every split calculate_splits returns holds files whose sizes add up to at most
\* max_size_bytes, or holds a single file that is larger than max_size_bytes.
C20_SplitsWithinLimitOrSingleOversized ==
    last.op = "splits" =>
        \A k \in DOMAIN last.result :
            LET split == last.result[k]
                total == SeqSum([i \in DOMAIN split |-> split[i][2]])
            IN  \/ total <= last.max_size_bytes
                \/ Len(split) = 1 /\ split[1][2] > last.max_size_bytes

\* the sizes 1, 1, 3, 2 under the limit 2: a full split of two files, the oversized file
\* alone, and the last file in a split of its own
C20_Witness ==
    /\ last.op = "splits"
    /\ last.max_size_bytes = 2
    /\ Len(last.files) = 4
    /\ Len(last.result) = 3
    /\ Len(last.result[1]) = 2
    /\ last.result[2] = << <<SplitFile(3), 3>> >>
    /\ last.result[3] = << <<SplitFile(4), 2>> >>

\* C24 as claimed: after a live remove_duplicates call that returned, every duplicate set
\* whose keeper was on the filesystem before the call still has a member there, and that
\* keeper was not deleted as a non-keeper of another set.
C24_EverySetKeepsAMember ==
    (last.op = "remove" /\ ~dry_run /\ ~last.raised) =>
        \A i \in DOMAIN last.sets :
            Exists(last.fs_before, last.keepers[i]) =>
                /\ \E p \in Range(last.sets[i][2]) : Exists(fs, p)
                /\ Exists(fs, last.keepers[i])

\* C25 as claimed: a load_hash_database call that raises leaves hash_algorithm,
\* processed_files and the index as they were before the call, and every digest of the
\* index is one of the instance's hash_algorithm.
C25_FailedLoadLeavesInstanceUnchanged ==
    (last.op = "load" /\ last.raised) =>
        /\ hash_algorithm = last.before.hash_algorithm
        /\ processed_files = last.before.processed_files
        /\ file_hashes = last.before.file_hashes
        /\ \A i \in DOMAIN file_hashes : file_hashes[i][1][1] = hash_algorithm

\* C26 as claimed: whatever scan_directory calls an instance has made, its
\* processed_files is at most its total_files.
C26_ProcessedAtMostTotal ==
    processed_files <= total_files

\* the number of path entries of an index, summed over its digests
EntryCount(index) == SeqSum([i \in DOMAIN index |-> Len(index[i][2])])

\* C27: after any sequence of scan_directory, save_hash_database, load_hash_database (of
\* snapshots that save_hash_database wrote), find_duplicates and remove_duplicates calls,
\* processed_files is the number of path entries of the index, summed over all digests.
C27_ProcessedIsEntryCount ==
    processed_files = EntryCount(file_hashes)

\* a snapshot that holds a digest with several paths was loaded into an instance that
\* had scanned more since the snapshot was written
C27_Witness ==
    /\ last.op = "load"
    /\ ~last.raised
    /\ \E i \in DOMAIN file_hashes : Len(file_hashes[i][2]) > 1
    /\ last.before.processed_files > processed_files
    /\ processed_files > 0

\* the paths of `files` that hold the content c on the filesystem f
Holders(f, files, c) == {p \in Range(files) : Exists(f, p) /\ f[p].content = c}

\* C28: after a live removal pass (scan_directory, find_duplicates, remove_duplicates on
\* a new instance) in which every deletion succeeded, a fresh instance that scans the
\* same root with the same filters finds no duplicate sets, and every content that a
\* scanned file held before the removal is held by exactly one of the files it scans.
C28_RemovalConverges ==
    (last.op = "rescan" /\ ~last.pass.raised /\ last.pass.failed = <<>>) =>
        /\ ~last.raised
        /\ last.result = <<>>
        /\ \A p \in Range(last.pass.files) :
              Cardinality(Holders(fs, last.files, last.pass.fs_before[p].content)) = 1

\* the pass deleted a duplicate and kept a file of another content beside the keeper
C28_Witness ==
    /\ last.op = "rescan"
    /\ ~last.pass.raised
    /\ last.pass.failed = <<>>
    /\ last.pass.removed_count > 0
    /\ Len(last.files) = 2

\* the splits laid end to end
RECURSIVE Concatenated(_)
Concatenated(splits) ==
    IF splits = <<>> THEN <<>> ELSE Head(splits) \o Concatenated(Tail(splits))

\* C30: calculate_splits returns a partition of its input: no split is empty, the splits
\* laid end to end are the input list in its order, so every (file, size) pair of the
\* input is in exactly one split.
C30_SplitsPartitionInput ==
    last.op = "splits" =>
        /\ \A k \in DOMAIN last.result : last.result[k] /= <<>>
        /\ Concatenated(last.result) = last.files
        /\ \A i \in DOMAIN last.files :
              Cardinality({k \in DOMAIN last.result :
                              last.files[i] \in Range(last.result[k])}) = 1

\* four files, the first over the limit: it goes alone, the rest fill one split and
\* open another, which the end of the loop appends
C30_Witness ==
    /\ last.op = "splits"
    /\ Len(last.files) = 4
    /\ last.files[1][2] > last.max_size_bytes
    /\ Len(last.result) = 3
    /\ Len(last.result[2]) = 2
    /\ Len(last.result[3]) = 1

\* the name a move numbers its file with: stem_001 in the splitter, stem_1 in the organizer
NumberedBy(op, name, counter) ==
    IF op = "move_file" THEN OrganizerNumbered(name, counter)
    ELSE SplitterNumbered(name, counter)

\* the move m of the call op put its file where the claim says: under its own name when
\* no entry of the directory had it, else under the numbered name with the lowest
\* counter from 1 on that no entry had
PlacedAsClaimed(op, m) ==
    LET name == PathName(m.source)
        own == Append(m.target_dir, name)
    IN  IF ~DiskExists(m.before, own) THEN m.destination = own
        ELSE \E k \in 1..(Cardinality(DOMAIN m.before) + 1) :
                /\ m.destination = Append(m.target_dir, NumberedBy(op, name, k))
                /\ ~DiskExists(m.before, m.destination)
                /\ \A j \in 1..(k - 1) :
                      DiskExists(m.before, Append(m.target_dir, NumberedBy(op, name, j)))

\* C21: a file that move_files (in split_directory), flatten_directory or move_file
\* moves into a directory goes under its own name when that name is free and otherwise
\* under the numbered name with the lowest free counter, and every file that was in the
\* tree before the call and was not itself moved is still there with its content.
C21_MoveNeverReplaces ==
    last.op \in {"split", "flatten", "move_file"} =>
        /\ \A i \in DOMAIN last.moves :
              last.moves[i].moved => PlacedAsClaimed(last.op, last.moves[i])
        /\ \A p \in DOMAIN last.before :
              (\A i \in DOMAIN last.moves :
                  last.moves[i].moved => last.moves[i].source /= p) =>
                  (p \in DOMAIN disk /\ disk[p] = last.before[p])

\* split_directory moved "/s/a.t" into "/o/batch_001", which held "a.t" and "a_001.t":
\* it is now "a_002.t" there
C21_Witness ==
    /\ last.op = "split"
    /\ \E i \in DOMAIN last.moves :
          /\ last.moves[i].moved
          /\ last.moves[i].source = Append(SourceDir, NameAt)
          /\ last.moves[i].destination = Append(Batch(1), <<97, 95, 48, 48, 50, 46, 116>>)
    /\ disk[Append(Batch(1), NameAt)] = FileEntry(<<9>>)
    /\ disk[Append(Batch(1), <<97, 95, 48, 48, 49, 46, 116>>)] = FileEntry(<<9>>)

\* move_file put "/s/a.t" into "/o/batch_001", which held "a.t" and "a_1.t", as "a_2.t"
C21_WitnessOrganizer ==
    /\ last.op = "move_file"
    /\ last.result
    /\ last.moves[1].moved
    /\ last.moves[1].destination = Append(Batch(1), <<97, 95, 50, 46, 116>>)
    /\ disk[Append(Batch(1), <<97, 95, 49, 46, 116>>)] = FileEntry(<<9>>)

\* flatten_directory met "a.t" in two batch directories: the second one it moved went
\* to "/s" as "a_001.t"
C21_WitnessFlatten ==
    /\ last.op = "flatten"
    /\ \E i \in DOMAIN last.moves :
          /\ last.moves[i].moved
          /\ last.moves[i].destination = Append(SourceDir, <<97, 95, 48, 48, 49, 46, 116>>)

\* the regular files directly in a directory of the tree d
FilesIn(d, directory) == {p \in Entries(d, directory) : IsFile(d, p)}

\* C22 as claimed: after a live split_directory that returned and in which no move
\* failed, no regular file is left directly in the source directory, and every file that
\* was there has been moved, once, into a batch directory of the output directory.
C22_SplitMovesEveryFile ==
    (/\ last.op = "split"
     /\ ~dry_run
     /\ ~last.raised
     /\ \A i \in DOMAIN last.moves : ~last.moves[i].failed) =>
        /\ FilesIn(disk, last.source_dir) = {}
        /\ \A p \in FilesIn(last.before, last.source_dir) :
              /\ Cardinality({i \in DOMAIN last.moves :
                                 last.moves[i].source = p /\ last.moves[i].moved}) = 1
              /\ \E i \in DOMAIN last.moves, n \in 1..Len(last.moves) :
                    /\ last.moves[i].source = p
                    /\ last.moves[i].target_dir = Append(last.output_dir, BatchName(n))
                    /\ IsFile(disk, last.moves[i].destination)

\* C23: after a run of organize_files by an organizer with max_files set,
\* stats['moved'] is at most max_files, whatever batch_size and the extensions are
C23_MovedAtMostMaxFiles ==
    (last.op = "organize" /\ organizer.max_files > 0)
        => organizer.stats.moved <= organizer.max_files

\* both files were read and have the same content
BothReadAndEqual(d, file1, file2, unreadable) ==
    /\ IsFile(d, file1) /\ file1 \notin unreadable
    /\ IsFile(d, file2) /\ file2 \notin unreadable
    /\ d[file1].content = d[file2].content

\* C29: with dedupe_method 'hash' or 'both', files_are_identical answers true only for
\* two files that were both read and have equal content, and organize_files skips or
\* removes no source file whose content could not be read
C29_IdenticalOnlyWhenBothRead ==
    organizer.dedupe_method \in {"hash", "both"} =>
        /\ (last.op = "identical" /\ last.result)
              => BothReadAndEqual(disk, last.file1, last.file2, last.unreadable)
        /\ last.op = "organize"
              => \A i \in DOMAIN last.skipped : last.skipped[i] \notin last.unreadable

====
